---- MODULE Spec2Model ----
(***************************************************************************)
(* Constant folding of typed C expression trees (src/src/fold.rs) as a     *)
(* state machine: an expression tree arrives from the parser, const_fold   *)
(* is applied to it, and the folded tree is folded once more.              *)
(*                                                                         *)
(* Literal payloads are 64-bit (i64 / u64) in the program.  The model      *)
(* checker's own integers are 32-bit, so 64-bit quantities are kept as     *)
(* exact integers in sign-magnitude form over base-256 digits and the      *)
(* machine primitives (overflowing_add, wrapping_mul, ...) are computed    *)
(* from the exact result at full width.                                    *)
(***************************************************************************)
EXTENDS Integers, Sequences, FiniteSets, TLC

(***************************************************************************)
(* Exact naturals: little-endian sequences of base-256 digits without      *)
(* leading (high) zero digits; zero is the empty sequence.                 *)
(***************************************************************************)
Base == 2^8

RECURSIVE NatNorm(_)
NatNorm(s) ==
  IF s = <<>> THEN <<>>
  ELSE IF s[Len(s)] = 0 THEN NatNorm(SubSeq(s, 1, Len(s) - 1))
  ELSE s

RECURSIVE NatOf(_)
NatOf(n) == IF n = 0 THEN <<>> ELSE <<n % Base>> \o NatOf(n \div Base)

Digit(s, i) == IF i <= Len(s) THEN s[i] ELSE 0

MaxOf(x, y) == IF x >= y THEN x ELSE y

RECURSIVE NatAddC(_, _, _, _)
NatAddC(a, b, i, c) ==
  IF i > MaxOf(Len(a), Len(b))
  THEN (IF c = 0 THEN <<>> ELSE <<c>>)
  ELSE LET t == Digit(a, i) + Digit(b, i) + c
       IN  <<t % Base>> \o NatAddC(a, b, i + 1, t \div Base)

NatAdd(a, b) == NatAddC(a, b, 1, 0)

\* a - b for a >= b
RECURSIVE NatSubC(_, _, _, _)
NatSubC(a, b, i, c) ==
  IF i > Len(a) THEN <<>>
  ELSE LET t == Digit(a, i) - Digit(b, i) - c
       IN  IF t < 0 THEN <<t + Base>> \o NatSubC(a, b, i + 1, 1)
           ELSE <<t>> \o NatSubC(a, b, i + 1, 0)

NatSub(a, b) == NatNorm(NatSubC(a, b, 1, 0))

\* -1, 0, 1 as a < b, a = b, a > b
RECURSIVE NatCmpAt(_, _, _)
NatCmpAt(a, b, i) ==
  IF i = 0 THEN 0
  ELSE IF a[i] < b[i] THEN -1
  ELSE IF a[i] > b[i] THEN 1
  ELSE NatCmpAt(a, b, i - 1)

NatCmp(a, b) ==
  IF Len(a) < Len(b) THEN -1
  ELSE IF Len(a) > Len(b) THEN 1
  ELSE NatCmpAt(a, b, Len(a))

NatLt(a, b) == NatCmp(a, b) < 0
NatLe(a, b) == NatCmp(a, b) <= 0

\* a * d for one digit d
RECURSIVE NatMulDigitC(_, _, _, _)
NatMulDigitC(a, d, i, c) ==
  IF i > Len(a)
  THEN (IF c = 0 THEN <<>> ELSE <<c>>)
  ELSE LET t == a[i] * d + c
       IN  <<t % Base>> \o NatMulDigitC(a, d, i + 1, t \div Base)

NatMulDigit(a, d) == IF d = 0 THEN <<>> ELSE NatMulDigitC(a, d, 1, 0)

\* a * 256^k
NatShiftDigits(a, k) ==
  IF a = <<>> THEN <<>> ELSE [i \in 1..k |-> 0] \o a

RECURSIVE NatMulAt(_, _, _)
NatMulAt(a, b, j) ==
  IF j > Len(b) THEN <<>>
  ELSE NatAdd(NatShiftDigits(NatMulDigit(a, b[j]), j - 1), NatMulAt(a, b, j + 1))

NatMul(a, b) == IF a = <<>> \/ b = <<>> THEN <<>> ELSE NatMulAt(a, b, 1)

\* the largest digit q with q * b <= r, for r < 256 * b, found bit by bit
RECURSIVE NatQuotDigit(_, _, _, _)
NatQuotDigit(r, b, bit, acc) ==
  IF bit = 0 THEN acc
  ELSE IF NatLe(NatMulDigit(b, acc + bit), r)
       THEN NatQuotDigit(r, b, bit \div 2, acc + bit)
       ELSE NatQuotDigit(r, b, bit \div 2, acc)

\* schoolbook long division from digit i of a downwards;
\* q holds the quotient digits found so far (little-endian), r the remainder.
\* (The test on the lengths has the accumulators evaluated at each step.)
RECURSIVE NatDivAt(_, _, _, _, _)
NatDivAt(a, b, i, q, r) ==
  IF i = 0 THEN << NatNorm(q), r >>
  ELSE LET r1 == NatNorm(<<a[i]>> \o r)
           d  == NatQuotDigit(r1, b, 128, 0)
           q2 == <<d>> \o q
           r2 == NatSub(r1, NatMulDigit(b, d))
       IN  IF Len(q2) + Len(r2) >= 0
           THEN NatDivAt(a, b, i - 1, q2, r2)
           ELSE << <<>>, <<>> >>

\* <<quotient, remainder>> of a by b, b # 0
NatDivMod(a, b) ==
  IF NatLt(a, b) THEN << <<>>, a >> ELSE NatDivAt(a, b, Len(a), <<>>, <<>>)

RECURSIVE SmallPow2(_)
SmallPow2(k) == IF k = 0 THEN 1 ELSE 2 * SmallPow2(k - 1)

\* 2^k
NatPow2(k) == [i \in 1..(k \div 8) |-> 0] \o <<SmallPow2(k % 8)>>


(***************************************************************************)
(* Exact integers: [neg, mag] with mag an exact natural; zero is never     *)
(* negative.                                                               *)
(***************************************************************************)
MkInt(neg, mag) == [neg |-> neg /\ mag # <<>>, mag |-> mag]

IntOf(n) == IF n < 0 THEN MkInt(TRUE, NatOf(-n)) ELSE MkInt(FALSE, NatOf(n))

IZero == IntOf(0)
IOne == IntOf(1)

INeg(a) == MkInt(~a.neg, a.mag)

IAdd(a, b) ==
  IF a.neg = b.neg THEN MkInt(a.neg, NatAdd(a.mag, b.mag))
  ELSE IF NatLe(b.mag, a.mag) THEN MkInt(a.neg, NatSub(a.mag, b.mag))
  ELSE MkInt(b.neg, NatSub(b.mag, a.mag))

ISub(a, b) == IAdd(a, INeg(b))

IMul(a, b) == MkInt(a.neg # b.neg, NatMul(a.mag, b.mag))

\* -1, 0, 1 as a < b, a = b, a > b
ICmp(a, b) ==
  IF a.neg /\ ~b.neg THEN -1
  ELSE IF ~a.neg /\ b.neg THEN 1
  ELSE IF a.neg THEN NatCmp(b.mag, a.mag)
  ELSE NatCmp(a.mag, b.mag)

ILt(a, b) == ICmp(a, b) < 0
ILe(a, b) == ICmp(a, b) <= 0

\* division truncating towards zero and its remainder (sign of the dividend)
IDivT(a, b) == MkInt(a.neg # b.neg, NatDivMod(a.mag, b.mag)[1])
IRemT(a, b) == MkInt(a.neg, NatDivMod(a.mag, b.mag)[2])

IPow2(k) == MkInt(FALSE, NatPow2(k))


(***************************************************************************)
(* Bits of exact naturals.                                                 *)
(***************************************************************************)
\* the low nd digits: a mod 256^nd
NatLowDigits(a, nd) == NatNorm(SubSeq(a, 1, IF Len(a) < nd THEN Len(a) ELSE nd))

\* a * 2^k
NatShl(a, k) == NatShiftDigits(NatMulDigit(a, SmallPow2(k % 8)), k \div 8)

\* floor(a / 2^k)
NatShr(a, k) ==
  LET nd == k \div 8
      r  == SmallPow2(k % 8)
      hi == IF Len(a) <= nd THEN <<>> ELSE SubSeq(a, nd + 1, Len(a))
  IN  NatNorm([i \in 1..Len(hi) |->
                 (hi[i] \div r) + (Digit(hi, i + 1) % r) * (Base \div r)])

\* a mod 2^k
NatLowBits(a, k) ==
  LET nd == k \div 8
      r  == SmallPow2(k % 8)
  IN  NatNorm([i \in 1..(IF k % 8 = 0 THEN nd ELSE nd + 1) |->
                 IF i <= nd THEN Digit(a, i) ELSE Digit(a, i) % r])

RECURSIVE SmallBitLen(_)
SmallBitLen(d) == IF d = 0 THEN 0 ELSE 1 + SmallBitLen(d \div 2)

\* number of significant bits of a (0 for zero)
NatBitLen(a) == IF a = <<>> THEN 0 ELSE 8 * (Len(a) - 1) + SmallBitLen(a[Len(a)])

\* bitwise operations on single digits; op is "and", "or" or "xor"
RECURSIVE DigitBitOp(_, _, _, _)
DigitBitOp(op, x, y, n) ==
  IF n = 0 THEN 0
  ELSE LET bx == x % 2
           by == y % 2
           b  == IF op = "and" THEN bx * by
                 ELSE IF op = "or" THEN (IF bx + by > 0 THEN 1 ELSE 0)
                 ELSE (bx + by) % 2
       IN  b + 2 * DigitBitOp(op, x \div 2, y \div 2, n - 1)

\* bitwise operation on the low nd digits of two naturals
NatBitOp(op, a, b, nd) ==
  NatNorm([i \in 1..nd |-> DigitBitOp(op, Digit(a, i), Digit(b, i), 8)])

(***************************************************************************)
(* The machine integers of the program: i64, u64 (Literal::Int,            *)
(* Literal::UnsignedInt), u8 (Literal::Char) and u32 (shift amounts).      *)
(***************************************************************************)
I64_MIN == INeg(IPow2(63))
I64_MAX == ISub(IPow2(63), IOne)
U64_MAX == ISub(IPow2(64), IOne)

InI64(x) == ILe(I64_MIN, x) /\ ILe(x, I64_MAX)
InU64(x) == ~x.neg /\ ILe(x, U64_MAX)

\* x mod 2^(8 * nd) for an exact integer x, as an exact non-negative integer
WrapUnsigned(x, nd) ==
  LET r == NatLowDigits(x.mag, nd)
  IN  IF x.neg /\ r # <<>>
      THEN MkInt(FALSE, NatSub(NatShiftDigits(<<1>>, nd), r))
      ELSE MkInt(FALSE, r)

WrapU64(x) == WrapUnsigned(x, 8)
WrapU32(x) == WrapUnsigned(x, 4)
WrapU8(x) == WrapUnsigned(x, 1)

\* the two's-complement reading of x mod 2^64
WrapI64(x) ==
  LET u == WrapU64(x)
  IN  IF ILe(u, I64_MAX) THEN u ELSE ISub(u, IPow2(64))

\* i64::overflowing_add / sub / mul / div / rem: <<wrapped value, overflowed>>
\* (div and rem are only defined for b # 0: the primitives panic on b = 0)
i64_overflowing_add(a, b) == LET r == IAdd(a, b) IN << WrapI64(r), ~InI64(r) >>
i64_overflowing_sub(a, b) == LET r == ISub(a, b) IN << WrapI64(r), ~InI64(r) >>
i64_overflowing_mul(a, b) == LET r == IMul(a, b) IN << WrapI64(r), ~InI64(r) >>
i64_overflowing_div(a, b) == LET r == IDivT(a, b) IN << WrapI64(r), ~InI64(r) >>
\* a remainder that is never negative (i64::overflowing_rem_euclid)
i64_overflowing_rem_euclid(a, b) ==
  << IF IRemT(a, b).neg THEN IAdd(IRemT(a, b), MkInt(FALSE, b.mag))
     ELSE IRemT(a, b),
     ~InI64(IDivT(a, b)) >>

i64_overflowing_rem(a, b) == << IRemT(a, b), ~InI64(IDivT(a, b)) >>

\* u64::wrapping_add / sub / mul / div / rem
u64_wrapping_add(a, b) == WrapU64(IAdd(a, b))
u64_wrapping_sub(a, b) == WrapU64(ISub(a, b))
u64_wrapping_mul(a, b) == WrapU64(IMul(a, b))
u64_wrapping_div(a, b) == IDivT(a, b)
u64_wrapping_rem(a, b) == IRemT(a, b)

\* the value of a u32 below 64 as a model integer: n & 63
Mask63(n) == IF n.mag = <<>> THEN 0 ELSE n.mag[1] % 64

\* i64::wrapping_shr(n: u32): arithmetic shift by n & 63
i64_wrapping_shr(i, n) ==
  LET k == Mask63(n)
  IN  IF i.neg
      THEN \* floor(i / 2^k) = -ceil(|i| / 2^k)
           LET q == NatShr(i.mag, k)
           IN  IF NatLowBits(i.mag, k) = <<>> THEN MkInt(TRUE, q)
               ELSE MkInt(TRUE, NatAdd(q, <<1>>))
      ELSE MkInt(FALSE, NatShr(i.mag, k))

\* u64::wrapping_shr(n: u32): logical shift by n & 63
u64_wrapping_shr(u, n) == MkInt(FALSE, NatShr(u.mag, Mask63(n)))

\* i64::overflowing_shl(n: u32): <<i << (n & 63) at 64 bits, n >= 64>>
i64_overflowing_shl(i, n) ==
  << WrapI64(MkInt(i.neg, NatShl(i.mag, Mask63(n)))), ~ILt(n, IntOf(64)) >>

\* u64::wrapping_shl(n: u32): u << (n & 63) at 64 bits
u64_wrapping_shl(u, n) == WrapU64(MkInt(FALSE, NatShl(u.mag, Mask63(n))))

\* !x on i64, u64 and u8
i64_not(i) == ISub(INeg(i), IOne)
u64_not(u) == ISub(U64_MAX, u)
u8_not(c) == ISub(IntOf(255), c)

\* x op y on i64 (through the two's-complement bit patterns), u64 and u8
i64_bitop(op, a, b) ==
  WrapI64(MkInt(FALSE, NatBitOp(op, WrapU64(a).mag, WrapU64(b).mag, 8)))
u64_bitop(op, a, b) == MkInt(FALSE, NatBitOp(op, a.mag, b.mag, 8))
u8_bitop(op, a, b) == MkInt(FALSE, NatBitOp(op, a.mag, b.mag, 1))


(***************************************************************************)
(* f64 (Literal::Float): the finite binary64 values, as                    *)
(* (-1)^fneg * fmag * 2^fexp with fmag odd (zero: fmag empty, fexp 0),     *)
(* every result rounded to 53 significant bits, ties to even.  -0.0 is     *)
(* kept as 0.0: the two compare equal and the folder never divides by      *)
(* either.  Infinities and NaN need operands beyond the literals and       *)
(* depths explored here (exponents stay far inside the binary64 range).    *)
(***************************************************************************)
RECURSIVE SmallTrailingZeros(_)
SmallTrailingZeros(d) == IF d % 2 = 1 THEN 0 ELSE 1 + SmallTrailingZeros(d \div 2)

\* number of trailing zero bits of a # 0
NatTrailingZeros(a) ==
  LET i == CHOOSE j \in 1..Len(a) : a[j] # 0 /\ \A k \in 1..(j - 1) : a[k] = 0
  IN  8 * (i - 1) + SmallTrailingZeros(a[i])

FZero == [fneg |-> FALSE, fmag |-> <<>>, fexp |-> 0]

\* stands for the infinities and NaN (x / 0.0), which no fold reaches
FNonFinite == [fneg |-> FALSE, fmag |-> <<>>, fexp |-> 1]

\* the representation of (-1)^neg * mag * 2^exp, when mag has at most 53 bits
FNorm(neg, mag, exp) ==
  IF mag = <<>> THEN FZero
  ELSE LET tz == NatTrailingZeros(mag)
       IN  [fneg |-> neg, fmag |-> NatShr(mag, tz), fexp |-> exp + tz]

\* round (-1)^neg * mag * 2^exp to the nearest binary64, ties to even
FRound(neg, mag, exp) ==
  LET n == NatBitLen(mag)
  IN  IF n <= 53 THEN FNorm(neg, mag, exp)
      ELSE LET sh   == n - 53
               q    == NatShr(mag, sh)
               rem  == NatLowBits(mag, sh)
               c    == NatCmp(rem, NatPow2(sh - 1))
               up   == c > 0 \/ (c = 0 /\ q[1] % 2 = 1)
           IN  FNorm(neg, IF up THEN NatAdd(q, <<1>>) ELSE q, exp + sh)

\* the exact integer f.fmag * 2^(f.fexp - e), signed, for e <= f.fexp
FScaled(f, e) == MkInt(f.fneg, NatShl(f.fmag, f.fexp - e))

f64_neg(f) == IF f.fmag = <<>> THEN FZero ELSE [f EXCEPT !.fneg = ~f.fneg]

f64_add(a, b) ==
  LET e == IF a.fexp <= b.fexp THEN a.fexp ELSE b.fexp
      r == IAdd(FScaled(a, e), FScaled(b, e))
  IN  FRound(r.neg, r.mag, e)

f64_sub(a, b) == f64_add(a, f64_neg(b))

f64_mul(a, b) ==
  FRound(a.fneg # b.fneg, NatMul(a.fmag, b.fmag), a.fexp + b.fexp)

\* a / b: the quotient to at least 55 bits and a sticky bit
f64_div(a, b) ==
  IF b.fmag = <<>> THEN FNonFinite
  ELSE IF a.fmag = <<>> THEN FZero
  ELSE LET s  == MaxOf(0, 55 + NatBitLen(b.fmag) - NatBitLen(a.fmag))
           qr == NatDivMod(NatShl(a.fmag, s), b.fmag)
           q2 == NatAdd(NatShl(qr[1], 1), IF qr[2] = <<>> THEN <<>> ELSE <<1>>)
       IN  FRound(a.fneg # b.fneg, q2, a.fexp - b.fexp - s - 1)

\* -1, 0, 1 as a < b, a = b, a > b
f64_cmp(a, b) ==
  LET e == IF a.fexp <= b.fexp THEN a.fexp ELSE b.fexp
  IN  ICmp(FScaled(a, e), FScaled(b, e))

\* i as f64, for an exact integer i
f64_from(i) == FRound(i.neg, i.mag, 0)

\* f truncated towards zero, as an exact integer
f64_trunc(f) ==
  IF f.fexp >= 0 THEN MkInt(f.fneg, NatShl(f.fmag, f.fexp))
  ELSE MkInt(f.fneg, NatShr(f.fmag, -f.fexp))

\* f as i64, f as u64: truncating and saturating
f64_as_i64(f) ==
  LET t == f64_trunc(f)
  IN  IF ILt(t, I64_MIN) THEN I64_MIN ELSE IF ILt(I64_MAX, t) THEN I64_MAX ELSE t

f64_as_u64(f) ==
  LET t == f64_trunc(f)
  IN  IF t.neg THEN IZero ELSE IF ILt(U64_MAX, t) THEN U64_MAX ELSE t

\* n / 2^k as f64, for model integers n and k >= 0
FloatOf(n, k) == LET i == IntOf(n) IN FRound(i.neg, i.mag, -k)


(***************************************************************************)
(* Types.  The folder asks a type only is_integral, is_signed, is_pointer  *)
(* and sizeof, and matches on Bool, Float, Double and Enum(_, members).    *)
(***************************************************************************)
CHAR_BIT == 8

Ty(kind, signed) == [kind |-> kind, signed |-> signed, members |-> <<>>]

BoolT == Ty("Bool", FALSE)
CharT == Ty("Char", TRUE)
UCharT == Ty("Char", FALSE)
ShortT == Ty("Short", TRUE)
IntT == Ty("Int", TRUE)
UIntT == Ty("Int", FALSE)
LongT == Ty("Long", TRUE)
ULongT == Ty("Long", FALSE)
FloatT == Ty("Float", FALSE)
DoubleT == Ty("Double", FALSE)
PointerT == Ty("Pointer", FALSE)
VoidT == Ty("Void", FALSE)
FunctionT == Ty("Function", FALSE)
\* enum E { A = 5, B = 7 }
EnumT == [kind |-> "Enum", signed |-> FALSE,
          members |-> << <<"A", IntOf(5)>>, <<"B", IntOf(7)>> >>]

is_integral(ty) == ty.kind \in {"Bool", "Char", "Short", "Int", "Long", "Enum"}

is_signed(ty) ==
  \/ ty.kind \in {"Bool", "Enum"}
  \/ ty.kind \in {"Char", "Short", "Int", "Long"} /\ ty.signed

is_pointer(ty) == ty.kind = "Pointer"

\* Ok(bytes) or Err(message)
sizeof(ty) ==
  CASE ty.kind \in {"Bool", "Char"} -> [tag |-> "Ok", val |-> IntOf(1)]
    [] ty.kind = "Short" -> [tag |-> "Ok", val |-> IntOf(2)]
    [] ty.kind \in {"Int", "Float", "Enum"} -> [tag |-> "Ok", val |-> IntOf(4)]
    [] ty.kind \in {"Long", "Double", "Pointer"} -> [tag |-> "Ok", val |-> IntOf(8)]
    [] ty.kind = "Void" -> [tag |-> "Err", msg |-> "cannot take sizeof void"]
    [] OTHER -> [tag |-> "Err", msg |-> "cannot take sizeof function"]

(***************************************************************************)
(* Literals, expression nodes, results.                                    *)
(***************************************************************************)
\* Literal::Int (the name Int is taken by the integers module)
Int_(i) == [tag |-> "Int", v |-> i]
UnsignedInt(u) == [tag |-> "UnsignedInt", v |-> u]
Float(f) == [tag |-> "Float", v |-> f]
Str(s) == [tag |-> "Str", v |-> s]
Char(c) == [tag |-> "Char", v |-> c]

\* the bool-to-integer casts of the source: (cond) as i64
BoolAsI64(b) == IF b THEN IOne ELSE IZero

Expr(expr, ctype, constexpr, lval, location) ==
  [expr |-> expr, ctype |-> ctype, constexpr |-> constexpr, lval |-> lval,
   location |-> location]

\* ExprType variants
Literal(token) == [tag |-> "Literal", lit |-> token]
Id(name) == [tag |-> "Id", name |-> name]
Sizeof(ctype) == [tag |-> "Sizeof", of |-> ctype]
Unary(tag, inner) == [tag |-> tag, inner |-> inner]
Binary(tag, left, right) == [tag |-> tag, left |-> left, right |-> right]
Shift(left, right, is_left) ==
  [tag |-> "Shift", left |-> left, right |-> right, is_left |-> is_left]
Compare(left, right, token) ==
  [tag |-> "Compare", left |-> left, right |-> right, token |-> token]
Ternary(condition, then, otherwise) ==
  [tag |-> "Ternary", condition |-> condition, then |-> then,
   otherwise |-> otherwise]
FuncCall(func, params) == [tag |-> "FuncCall", func |-> func, params |-> params]
Member(inner, member) == [tag |-> "Member", inner |-> inner, member |-> member]
Assign(target, value, token) ==
  [tag |-> "Assign", left |-> target, right |-> value, token |-> token]
PostIncrement(inner, increase) ==
  [tag |-> "PostIncrement", inner |-> inner, increase |-> increase]

IsLiteral(e) == e.expr.tag = "Literal"
IsLit(e, tag) == e.expr.tag = "Literal" /\ e.expr.lit.tag = tag

\* CompileResult: Ok(value), Err(Locatable error); a panic aborts the folder
Ok(x) == [tag |-> "Ok", val |-> x]
Err(data, location) == [tag |-> "Err", data |-> data, location |-> location]
Panic(why) == [tag |-> "Panic", why |-> why]
IsOk(r) == r.tag = "Ok"
IsErr(r) == r.tag = "Err"
IsPanic(r) == r.tag = "Panic"

\* error payloads
ConstOverflow(is_positive) == [kind |-> "ConstOverflow", is_positive |-> is_positive]
DivideByZero == [kind |-> "DivideByZero"]
NotConstant(e) == [kind |-> "NotConstant", expr |-> e]
Semantic(msg) == [kind |-> "Semantic", msg |-> msg]
ShiftTooLarge(max_shift, ctype, shift) ==
  [kind |-> "Semantic",
   msg |-> "cannot shift left by {} or more bits for type '{}' (got {})",
   max_shift |-> max_shift, ctype |-> ctype, shift |-> shift]

\* fold_func results: Ok(Some(literal)), Ok(None), Err(error); or a panic
Some(token) == [tag |-> "Some", lit |-> token]
None == [tag |-> "None"]
FoldErr(data) == [tag |-> "Err", data |-> data]


(***************************************************************************)
(* The state: an expression tree handed over by the parser, the build      *)
(* profile of the folder (arithmetic overflow checks on: a debug build;    *)
(* off: a release build), and the results of folding; and the state of a   *)
(* run of compile.                                                         *)
(***************************************************************************)
VARIABLES
  input,            \* the typed expression tree to fold
  overflow_checks,  \* TRUE iff the folder was built with overflow checks
  pc,               \* "parsed", "folded", "refolded", "extracted", "tested"
  folded,           \* const_fold(input), once pc # "parsed"
  refolded,         \* const_fold of the folded tree, once pc = "refolded"
  zero,             \* the two is_zero answers on input, once pc = "tested"
  compiler,         \* the run of compile: its position, inputs and results
  ir_compiler       \* the Compiler of ir::compile: its module and scope

vars ==
  <<input, overflow_checks, pc, folded, refolded, zero, compiler, ir_compiler>>

(***************************************************************************)
(* src/src/data/lex.rs and src/src/fold.rs: predicates on literals.        *)
(***************************************************************************)
\* Literal::is_zero
Literal_is_zero(token) ==
  CASE token.tag \in {"Int", "UnsignedInt", "Char"} -> token.v = IZero
    [] OTHER -> FALSE

\* a zero test that knows Int literals only
is_zero_int_only(self) == self.expr.tag = "Literal" /\ self.expr.lit = Int_(IZero)

\* a zero test that takes every tree that is not a literal for zero
is_zero_unless_known(self) ==
  \/ self.expr.tag # "Literal"
  \/ /\ self.expr.lit.tag \in {"Int", "UnsignedInt", "Char", "Float"}
     /\ self.expr.lit.v \in {IZero, FZero}

\* a zero test without the Float arm (as Literal::is_zero)
is_zero_integral(self) ==
  self.expr.tag = "Literal" /\ Literal_is_zero(self.expr.lit)

\* Expr::is_zero
is_zero(self) ==
  IF self.expr.tag = "Literal"
  THEN LET token == self.expr.lit
       IN  CASE token.tag \in {"Int", "UnsignedInt", "Char"} -> token.v = IZero
             [] token.tag = "Float" -> token.v = FZero
             [] OTHER -> FALSE
  ELSE FALSE

\* Expr::is_negative
is_negative(self) ==
  IF self.expr.tag = "Literal"
  THEN LET token == self.expr.lit
       IN  CASE token.tag = "Int" -> token.v.neg
             [] token.tag = "Float" -> token.v.fneg
             [] OTHER -> FALSE
  ELSE FALSE

\* a conversion that takes the magnitude of a negative Int (i as u64 of -i)
non_negative_int_abs(self) ==
  CASE self.tag \in {"Int", "UnsignedInt", "Char"} -> Ok(MkInt(FALSE, self.v.mag))
    [] OTHER -> [tag |-> "Err"]

\* Literal::non_negative_int: Ok(u64) or Err(())
non_negative_int(self) ==
  CASE self.tag = "Int" /\ ~self.v.neg -> Ok(self.v)
    [] self.tag = "UnsignedInt" -> Ok(self.v)
    [] self.tag = "Char" -> Ok(self.v)
    [] OTHER -> [tag |-> "Err"]

(***************************************************************************)
(* The folding functions handed to literal_bin_op.                         *)
(***************************************************************************)
\* signed primitives that wrap a product silently (i64::wrapping_mul)
overflowing_or_wrapping_mul(op, a, b) ==
  CASE op = "Add" -> i64_overflowing_add(a, b)
    [] op = "Sub" -> i64_overflowing_sub(a, b)
    [] op = "Mul" -> <<i64_overflowing_mul(a, b)[1], FALSE>>
    [] op = "Div" -> i64_overflowing_div(a, b)

\* the (overflowing, wrapping, simple) primitives of Add, Sub, Mul and Div
overflowing(op, a, b) ==
  CASE op = "Add" -> i64_overflowing_add(a, b)
    [] op = "Sub" -> i64_overflowing_sub(a, b)
    [] op = "Mul" -> i64_overflowing_mul(a, b)
    [] op = "Div" -> i64_overflowing_div(a, b)

\* unsigned primitives whose difference stops at zero (u64::saturating_sub)
wrapping_or_saturating_sub(op, a, b) ==
  CASE op = "Add" -> u64_wrapping_add(a, b)
    [] op = "Sub" -> IF ILt(a, b) THEN IZero ELSE ISub(a, b)
    [] op = "Mul" -> u64_wrapping_mul(a, b)
    [] op = "Div" -> u64_wrapping_div(a, b)

wrapping(op, a, b) ==
  CASE op = "Add" -> u64_wrapping_add(a, b)
    [] op = "Sub" -> u64_wrapping_sub(a, b)
    [] op = "Mul" -> u64_wrapping_mul(a, b)
    [] op = "Div" -> u64_wrapping_div(a, b)

simple(op, a, b) ==
  CASE op = "Add" -> f64_add(a, b)
    [] op = "Sub" -> f64_sub(a, b)
    [] op = "Mul" -> f64_mul(a, b)
    [] op = "Div" -> f64_div(a, b)

\* the error of an overflowed signed operation whose wrapped result is value
overflow_error(value) == ConstOverflow(value.neg)

\* the Int arm of fold_scalar_bin_op and of the Mod closure, on
\* <<value, overflowed>>
fold_overflowing(r) ==
  IF r[2] THEN FoldErr(overflow_error(r[1])) ELSE Some(Int_(r[1]))

\* fold_scalar_bin_op(simple, overflowing, wrapping): op is Add, Sub, Mul or Div
fold_scalar_bin_op(op, a, b, ctype) ==
  CASE a.tag = "Int" /\ b.tag = "Int" ->
         IF op = "Div" /\ b.v = IZero THEN Panic("attempt to divide by zero")
         ELSE fold_overflowing(overflowing(op, a.v, b.v))
    [] a.tag = "UnsignedInt" /\ b.tag = "UnsignedInt" ->
         IF op = "Div" /\ b.v = IZero THEN Panic("attempt to divide by zero")
         ELSE Some(UnsignedInt(wrapping(op, a.v, b.v)))
    [] a.tag = "Float" /\ b.tag = "Float" -> Some(Float(simple(op, a.v, b.v)))
    [] OTHER -> None

\* the closure of the Mod arm
fold_mod(a, b, ctype) ==
  CASE a.tag = "Int" /\ b.tag = "Int" ->
         IF b.v = IZero
         THEN Panic("attempt to calculate the remainder with a divisor of zero")
         ELSE fold_overflowing(i64_overflowing_rem(a.v, b.v))
    [] a.tag = "UnsignedInt" /\ b.tag = "UnsignedInt" ->
         IF b.v = IZero
         THEN Panic("attempt to calculate the remainder with a divisor of zero")
         ELSE Some(UnsignedInt(u64_wrapping_rem(a.v, b.v)))
    [] a.tag = "Char" /\ b.tag = "Char" ->
         IF b.v = IZero THEN FoldErr(DivideByZero)
         ELSE Some(Char(IRemT(a.v, b.v)))
    [] OTHER -> None

\* fold_int_bin_op!(^), (&), (|): op is "xor", "and" or "or"
fold_int_bin_op(op, a, b, ctype) ==
  CASE a.tag = "Int" /\ b.tag = "Int" -> Some(Int_(i64_bitop(op, a.v, b.v)))
    [] a.tag = "UnsignedInt" /\ b.tag = "UnsignedInt" ->
         Some(UnsignedInt(u64_bitop(op, a.v, b.v)))
    [] a.tag = "Char" /\ b.tag = "Char" -> Some(Char(u8_bitop(op, a.v, b.v)))
    [] OTHER -> None

\* a && that takes every non-zero Int for true
fold_logical_and_truthy(left, right, ctype) ==
  CASE left.tag = "Int" /\ right.tag = "Int" ->
         Some(Int_(BoolAsI64(left.v # IZero /\ right.v # IZero)))
    [] left = Int_(IZero) \/ right = Int_(IZero) -> Some(Int_(IZero))
    [] OTHER -> None

\* the closures of the LogicalAnd and LogicalOr arms
fold_logical_and(left, right, ctype) ==
  CASE left = Int_(IOne) /\ right = Int_(IOne) -> Some(Int_(IOne))
    [] left = Int_(IZero) \/ right = Int_(IZero) -> Some(Int_(IZero))
    [] OTHER -> None

fold_logical_or(left, right, ctype) ==
  CASE left = Int_(IZero) /\ right = Int_(IZero) -> Some(Int_(IZero))
    [] left = Int_(IOne) \/ right = Int_(IOne) -> Some(Int_(IOne))
    [] OTHER -> None

\* the fold_func an arm of const_fold passes to literal_bin_op
fold_func(op, a, b, ctype) ==
  CASE op \in {"Add", "Sub", "Mul", "Div"} -> fold_scalar_bin_op(op, a, b, ctype)
    [] op = "Mod" -> fold_mod(a, b, ctype)
    [] op = "Xor" -> fold_int_bin_op("xor", a, b, ctype)
    [] op = "BitwiseAnd" -> fold_int_bin_op("and", a, b, ctype)
    [] op = "BitwiseOr" -> fold_int_bin_op("or", a, b, ctype)
    [] op = "LogicalAnd" -> fold_logical_and(a, b, ctype)
    [] op = "LogicalOr" -> fold_logical_or(a, b, ctype)


(***************************************************************************)
(* The cast normalizer and the unary folds.                                *)
(***************************************************************************)
\* a cast normalizer whose Int to Bool row tests value == 0
const_cast_bool_inverted(token, ctype) ==
  CASE token.tag = "Int" /\ ctype.kind = "Bool" ->
         Some(Int_(BoolAsI64(token.v = IZero)))
    [] token.tag = "Int" /\ ctype.kind \in {"Double", "Float"} ->
         Some(Float(f64_from(token.v)))
    [] token.tag = "Int" /\ is_integral(ctype) /\ is_signed(ctype) ->
         Some(Int_(token.v))
    [] token.tag = "Int" /\ is_integral(ctype) ->
         Some(UnsignedInt(WrapU64(token.v)))
    [] token.tag = "UnsignedInt" /\ ctype.kind = "Bool" ->
         Some(Int_(BoolAsI64(token.v # IZero)))
    [] token.tag = "UnsignedInt" /\ ctype.kind \in {"Double", "Float"} ->
         Some(Float(f64_from(token.v)))
    [] token.tag = "UnsignedInt" /\ is_integral(ctype) /\ is_signed(ctype) ->
         Some(Int_(WrapI64(token.v)))
    [] token.tag = "UnsignedInt" /\ is_integral(ctype) ->
         Some(UnsignedInt(token.v))
    [] token.tag = "Float" /\ ctype.kind = "Bool" ->
         Some(Int_(BoolAsI64(token.v # FZero)))
    [] token.tag = "Float" /\ ctype.kind \in {"Double", "Float"} ->
         Some(Float(token.v))
    [] token.tag = "Float" /\ is_integral(ctype) /\ is_signed(ctype) ->
         Some(Int_(f64_as_i64(token.v)))
    [] token.tag = "Float" /\ is_integral(ctype) ->
         Some(UnsignedInt(f64_as_u64(token.v)))
    [] token.tag = "Int" /\ is_pointer(ctype) /\ ~token.v.neg ->
         Some(UnsignedInt(WrapU64(token.v)))
    [] token.tag = "UnsignedInt" /\ is_pointer(ctype) ->
         Some(UnsignedInt(token.v))
    [] token.tag = "Char" /\ is_pointer(ctype) ->
         Some(UnsignedInt(token.v))
    [] OTHER -> None

\* const_cast: Some(literal) or None, the first matching row
const_cast(token, ctype) ==
  CASE token.tag = "Int" /\ ctype.kind = "Bool" ->
         Some(Int_(BoolAsI64(token.v # IZero)))
    [] token.tag = "Int" /\ ctype.kind \in {"Double", "Float"} ->
         Some(Float(f64_from(token.v)))
    [] token.tag = "Int" /\ is_integral(ctype) /\ is_signed(ctype) ->
         Some(Int_(token.v))
    [] token.tag = "Int" /\ is_integral(ctype) ->
         Some(UnsignedInt(WrapU64(token.v)))
    [] token.tag = "UnsignedInt" /\ ctype.kind = "Bool" ->
         Some(Int_(BoolAsI64(token.v # IZero)))
    [] token.tag = "UnsignedInt" /\ ctype.kind \in {"Double", "Float"} ->
         Some(Float(f64_from(token.v)))
    [] token.tag = "UnsignedInt" /\ is_integral(ctype) /\ is_signed(ctype) ->
         Some(Int_(WrapI64(token.v)))
    [] token.tag = "UnsignedInt" /\ is_integral(ctype) ->
         Some(UnsignedInt(token.v))
    [] token.tag = "Float" /\ ctype.kind = "Bool" ->
         Some(Int_(BoolAsI64(token.v # FZero)))
    [] token.tag = "Float" /\ ctype.kind \in {"Double", "Float"} ->
         Some(Float(token.v))
    [] token.tag = "Float" /\ is_integral(ctype) /\ is_signed(ctype) ->
         Some(Int_(f64_as_i64(token.v)))
    [] token.tag = "Float" /\ is_integral(ctype) ->
         Some(UnsignedInt(f64_as_u64(token.v)))
    [] token.tag = "Int" /\ is_pointer(ctype) /\ ~token.v.neg ->
         Some(UnsignedInt(WrapU64(token.v)))
    [] token.tag = "UnsignedInt" /\ is_pointer(ctype) ->
         Some(UnsignedInt(token.v))
    [] token.tag = "Char" /\ is_pointer(ctype) ->
         Some(UnsignedInt(token.v))
    [] OTHER -> None

\* lnot_fold: the ExprType of !expr for a folded expr
lnot_fold(expr) ==
  CASE IsLit(expr, "Int") -> Literal(Int_(BoolAsI64(expr.expr.lit.v = IZero)))
    [] IsLit(expr, "Float") -> Literal(Int_(BoolAsI64(expr.expr.lit.v = FZero)))
    [] IsLit(expr, "Char") -> Literal(Int_(BoolAsI64(expr.expr.lit.v = IZero)))
    [] IsLit(expr, "Str") -> Literal(Int_(IZero))
    [] OTHER -> Unary("LogicalNot", expr)

\* the closure of the Negate arm; -i on i64::MIN panics under overflow
\* checks and wraps without them
negate_literal(token) ==
  CASE token.tag = "Int" ->
         IF overflow_checks /\ token.v = I64_MIN
         THEN Panic("attempt to negate with overflow")
         ELSE Ok(Int_(WrapI64(INeg(token.v))))
    [] token.tag = "UnsignedInt" -> Ok(UnsignedInt(u64_wrapping_sub(IZero, token.v)))
    [] token.tag = "Char" -> Ok(Char(WrapU8(INeg(token.v))))
    [] token.tag = "Float" -> Ok(Float(f64_neg(token.v)))
    [] OTHER -> Ok(token)

\* fold_int_unary_op!(!)
bitwise_not_literal(token) ==
  CASE token.tag = "Int" -> Ok(Int_(i64_not(token.v)))
    [] token.tag = "UnsignedInt" -> Ok(UnsignedInt(u64_not(token.v)))
    [] token.tag = "Char" -> Ok(Char(u8_not(token.v)))
    [] OTHER -> Ok(token)

\* Expr::map_literal, for the literal functions of Negate and BitwiseNot:
\* Ok(ExprType), or the panic of the literal function
map_literal_result(token) == IF IsOk(token) THEN Ok(Literal(token.val)) ELSE token

map_literal(self, constructor) ==
  IF self.expr.tag = "Literal"
  THEN map_literal_result(IF constructor = "Negate"
                          THEN negate_literal(self.expr.lit)
                          ELSE bitwise_not_literal(self.expr.lit))
  ELSE Ok(Unary(constructor, self))

\* a comparison whose <= is <
compare_literals_strict(token, a, b) ==
  LET c == IF a.tag = "Float" THEN f64_cmp(a.v, b.v) ELSE ICmp(a.v, b.v)
  IN  CASE token \in {"Less", "LessEqual"} -> c < 0
        [] token = "Greater" -> c > 0
        [] token = "GreaterEqual" -> c >= 0
        [] token = "EqualEqual" -> c = 0
        [] token = "NotEqual" -> c # 0

\* the comparison a $op b of fold_compare_op!, on two literals of one variant
compare_literals(token, a, b) ==
  LET c == IF a.tag = "Float" THEN f64_cmp(a.v, b.v) ELSE ICmp(a.v, b.v)
  IN  CASE token = "Less" -> c < 0
        [] token = "LessEqual" -> c <= 0
        [] token = "Greater" -> c > 0
        [] token = "GreaterEqual" -> c >= 0
        [] token = "EqualEqual" -> c = 0
        [] token = "NotEqual" -> c # 0

\* the enum arm of Id: the member named name, if any
enum_member(members, name) ==
  IF \E i \in 1..Len(members) : members[i][1] = name
  THEN LET i == CHOOSE k \in 1..Len(members) :
                  /\ members[k][1] = name
                  /\ \A j \in 1..(k - 1) : members[j][1] # name
       IN  Some(members[i][2])
  ELSE None

\* a result node that types a folded Int literal as a long, whatever the
\* node's type was
folded_expr_retyped(self, expr) ==
  [expr |-> expr,
   constexpr |-> expr.tag = "Literal",
   location |-> self.location,
   ctype |-> IF expr.tag = "Literal" /\ expr.lit.tag = "Int" THEN LongT ELSE self.ctype,
   lval |-> self.lval]

\* a result node that keeps the constexpr flag the node came with
folded_expr_keeping_flag(self, expr) ==
  [expr |-> expr,
   constexpr |-> self.constexpr,
   location |-> self.location,
   ctype |-> self.ctype,
   lval |-> self.lval]

\* the node const_fold returns for self once its ExprType has folded
folded_expr(self, expr) ==
  [expr |-> expr,
   constexpr |-> expr.tag = "Literal",
   location |-> self.location,
   ctype |-> self.ctype,
   lval |-> self.lval]


(***************************************************************************)
(* Expr::const_fold and the functions it recurses through.  A CASE takes   *)
(* the first arm whose guard holds, as a match does.  Operand folds are    *)
(* sequenced as in the source: the first Err (or panic) is the result.     *)
(***************************************************************************)
RECURSIVE const_fold(_)
RECURSIVE literal_bin_op(_, _, _, _)
RECURSIVE fold_compare_op(_, _, _)
RECURSIVE shift_right(_, _, _, _)
RECURSIVE shift_left(_, _, _, _)
RECURSIVE cast(_, _)
RECURSIVE fold_params(_, _, _)
RECURSIVE fold_expr_type(_)

\* l? and then r?: the first Err (or panic), or the two values
Both(l, r) ==
  IF ~IsOk(l) THEN l ELSE IF ~IsOk(r) THEN r ELSE Ok(<<l.val, r.val>>)

\* the constructor an arm passes to literal_bin_op
constructor(op, left, right) == Binary(op, left, right)

\* literal_bin_op, on the result t of fold_func for two literals
literal_bin_op_result(t, left, right, location, op) ==
  CASE t.tag = "Err" -> Err(t.data, location)
    [] t.tag = "Panic" -> t
    [] t.tag = "Some" -> Ok(Literal(t.lit))
    [] OTHER -> Ok(constructor(op, left, right))

\* literal_bin_op, on its two operands once folded
literal_bin_op_folded(both, location, op) ==
  IF ~IsOk(both) THEN both
  ELSE IF IsLiteral(both.val[1]) /\ IsLiteral(both.val[2])
  THEN literal_bin_op_result(
         fold_func(op, both.val[1].expr.lit, both.val[2].expr.lit,
                   both.val[1].ctype),
         both.val[1], both.val[2], location, op)
  ELSE Ok(constructor(op, both.val[1], both.val[2]))

\* Expr::literal_bin_op: Ok(ExprType) or Err
literal_bin_op(self, other, location, op) ==
  literal_bin_op_folded(Both(const_fold(self), const_fold(other)), location, op)

\* fold_compare_op!, on its two operands once folded
fold_compare_op_folded(both, token) ==
  IF ~IsOk(both) THEN both
  ELSE IF /\ IsLiteral(both.val[1]) /\ IsLiteral(both.val[2])
          /\ both.val[1].expr.lit.tag = both.val[2].expr.lit.tag
          /\ both.val[1].expr.lit.tag \in {"Int", "UnsignedInt", "Float", "Char"}
  THEN Ok(Literal(Int_(BoolAsI64(
         compare_literals(token, both.val[1].expr.lit, both.val[2].expr.lit)))))
  ELSE Ok(Compare(both.val[1], both.val[2], token))

\* fold_compare_op!: Ok(ExprType) or Err
fold_compare_op(left, right, token) ==
  fold_compare_op_folded(Both(const_fold(left), const_fold(right)), token)

\* shift_right, for a literal amount: shift is non_negative_int of the
\* amount and size is the sizeof of the node's type
shift_right_by(left, right, shift, size, ctype, location) ==
  IF ~IsOk(shift)
  THEN Err(Semantic("cannot shift left by a negative amount"), location)
  ELSE IF ~IsOk(size) THEN Err(Semantic(size.msg), location)
  ELSE IF ILe(size.val, shift.val)
  THEN Ok(Literal(IF is_signed(ctype) THEN Int_(IZero) ELSE UnsignedInt(IZero)))
  ELSE IF IsLiteral(left)
  THEN CASE IsLit(left, "Int") ->
              Ok(Literal(Int_(i64_wrapping_shr(left.expr.lit.v,
                                               WrapU32(shift.val)))))
         [] IsLit(left, "UnsignedInt") ->
              Ok(Literal(UnsignedInt(u64_wrapping_shr(left.expr.lit.v,
                                                      WrapU32(shift.val)))))
         [] OTHER -> Panic("only ints and unsigned ints can be right shifted")
  ELSE Ok(Shift(left, [right EXCEPT !.expr = Literal(right.expr.lit)], FALSE))

\* shift_right, on its two operands once folded
shift_right_folded(both, ctype, location) ==
  IF ~IsOk(both) THEN both
  ELSE IF IsLiteral(both.val[2])
  THEN shift_right_by(both.val[1], both.val[2],
                      non_negative_int(both.val[2].expr.lit), sizeof(ctype),
                      ctype, location)
  ELSE Ok(Shift(both.val[1], both.val[2], FALSE))

\* shift_right: Ok(ExprType) or Err
shift_right(left, right, ctype, location) ==
  shift_right_folded(Both(const_fold(left), const_fold(right)), ctype, location)

\* shift_left, on the result of i64::overflowing_shl
shift_left_result(res, location) ==
  IF res[2]
  THEN Err(Semantic("overflow in shift left during constant folding"), location)
  ELSE Ok(Literal(Int_(res[1])))

\* shift_left, for a literal amount: shift is non_negative_int of the
\* amount, max_shift is CHAR_BIT * the sizeof of the left operand's type
shift_left_by(left, right, shift, size, max_shift, ctype, location) ==
  IF ~IsOk(shift)
  THEN Err(Semantic("cannot shift left by a negative amount"), location)
  ELSE IF is_signed(left.ctype) /\ ~IsOk(size)
  THEN Err(Semantic(size.msg), location)
  ELSE IF is_signed(left.ctype) /\ ILe(max_shift, shift.val)
  THEN Err(ShiftTooLarge(max_shift, ctype, shift.val), location)
  ELSE CASE IsLit(left, "Int") ->
              shift_left_result(
                i64_overflowing_shl(left.expr.lit.v, WrapU32(shift.val)),
                location)
         [] IsLit(left, "UnsignedInt") ->
              Ok(Literal(UnsignedInt(u64_wrapping_shl(left.expr.lit.v,
                                                      WrapU32(shift.val)))))
         [] OTHER ->
              Ok(Shift(left, [right EXCEPT !.expr = Literal(right.expr.lit)],
                       FALSE))

\* shift_left, on the sizeof of the left operand's type
shift_left_sized(left, right, size, ctype, location) ==
  shift_left_by(left, right, non_negative_int(right.expr.lit), size,
                IMul(IntOf(CHAR_BIT), size.val), ctype, location)

\* shift_left, on its two operands once folded
shift_left_folded(both, ctype, location) ==
  IF ~IsOk(both) THEN both
  ELSE IF IsLiteral(both.val[2])
  THEN shift_left_sized(both.val[1], both.val[2], sizeof(both.val[1].ctype),
                        ctype, location)
  ELSE Ok(Shift(both.val[1], both.val[2], FALSE))

\* shift_left: Ok(ExprType) or Err
shift_left(left, right, ctype, location) ==
  shift_left_folded(Both(const_fold(left), const_fold(right)), ctype, location)

\* cast, on the result of const_cast for a literal
cast_result(token, expr) ==
  IF token.tag = "Some" THEN Ok(Literal(token.lit)) ELSE Ok(Unary("Cast", expr))

\* cast, on its operand once folded
cast_folded(expr, ctype) ==
  IF ~IsOk(expr) THEN expr
  ELSE IF IsLiteral(expr.val)
  THEN cast_result(const_cast(expr.val.expr.lit, ctype), expr.val)
  ELSE Ok(Unary("Cast", expr.val))

\* cast: Ok(ExprType) or Err
cast(expr, ctype) == cast_folded(const_fold(expr), ctype)
RECURSIVE fold_params_from(_, _, _, _)

\* params.into_iter().map(Self::const_fold).collect::<CompileResult<_>>():
\* Ok(the folded parameters from index i on, after done) or the first Err
fold_params(params, i, done) ==
  IF i > Len(params) THEN Ok(done)
  ELSE fold_params_from(params, i, done, const_fold(params[i]))

\* fold_params, on parameter i once folded
fold_params_from(params, i, done, param) ==
  IF ~IsOk(param) THEN param
  ELSE fold_params(params, i + 1, Append(done, param.val))

\* the Id arm, on the enum member of that name, if any
fold_id(x, member) ==
  IF member.tag = "Some" THEN Ok(Literal(Int_(member.lit))) ELSE Ok(x)

\* the Sizeof arm, on the sizeof of its type
fold_sizeof(size, location) ==
  IF IsOk(size) THEN Ok(Literal(UnsignedInt(size.val)))
  ELSE Err(Semantic(size.msg), location)

\* the arms of one operand, on that operand once folded
fold_unary(x, inner) ==
  IF ~IsOk(inner) THEN inner
  ELSE CASE x.tag \in {"Negate", "BitwiseNot"} -> map_literal(inner.val, x.tag)
         [] x.tag = "LogicalNot" -> Ok(lnot_fold(inner.val))
         [] x.tag \in {"Noop", "StaticRef"} -> Ok(Unary(x.tag, inner.val))
         [] x.tag = "Deref" ->
              IF inner.val.expr = Literal(Int_(IZero))
              THEN Err(Semantic("cannot dereference NULL pointer"),
                       inner.val.location)
              ELSE Ok(Unary("Deref", inner.val))
         [] x.tag = "Member" -> Ok(Member(inner.val, x.member))
         [] x.tag = "PostIncrement" -> Ok(PostIncrement(inner.val, x.increase))

\* the Comma and Assign arms, on their two operands once folded
fold_binary(x, both) ==
  IF ~IsOk(both) THEN both
  ELSE CASE x.tag = "Comma" ->
              IF both.val[1].constexpr THEN Ok(both.val[2].expr)
              ELSE Ok(Binary("Comma", both.val[1], both.val[2]))
         [] x.tag = "Assign" -> Ok(Assign(both.val[1], both.val[2], x.token))

\* the Div and Mod arms, on the right operand once folded
fold_div(x, right, location) ==
  IF ~IsOk(right) THEN right
  ELSE IF is_zero(right.val) THEN Err(DivideByZero, location)
  ELSE literal_bin_op(x.left, right.val, location, x.tag)

\* the Ternary arm, on <<<<condition, then>>, otherwise>> once folded
fold_ternary(all) ==
  IF ~IsOk(all) THEN all
  ELSE IF all.val[1][1].expr = Literal(Int_(IZero)) THEN Ok(all.val[2].expr)
  ELSE IF IsLit(all.val[1][1], "Int") THEN Ok(all.val[1][2].expr)
  ELSE Ok(Ternary(all.val[1][1], all.val[1][2], all.val[2]))

\* the FuncCall arm, on <<func, params>> once folded
fold_call(both) ==
  IF ~IsOk(both) THEN both ELSE Ok(FuncCall(both.val[1], both.val[2]))

\* the match of const_fold on self.expr: Ok(ExprType) or Err.  The arms
\* that only call literal_bin_op are one arm here.
fold_expr_type(self) ==
  LET x        == self.expr
      location == self.location
  IN  CASE x.tag = "Literal" -> Ok(x)
        [] x.tag = "Id" ->
             IF self.ctype.kind = "Enum"
             THEN fold_id(x, enum_member(self.ctype.members, x.name))
             ELSE Ok(x)
        [] x.tag = "Sizeof" -> fold_sizeof(sizeof(x.of), location)
        [] x.tag \in {"Negate", "BitwiseNot", "LogicalNot", "Noop", "StaticRef",
                      "Deref", "Member", "PostIncrement"} ->
             fold_unary(x, const_fold(x.inner))
        [] x.tag \in {"Comma", "Assign"} ->
             fold_binary(x, Both(const_fold(x.left), const_fold(x.right)))
        [] x.tag \in {"Add", "Sub", "Mul", "Xor", "BitwiseAnd", "BitwiseOr",
                      "LogicalAnd", "LogicalOr"} ->
             literal_bin_op(x.left, x.right, location, x.tag)
        [] x.tag \in {"Div", "Mod"} -> fold_div(x, const_fold(x.right), location)
        [] x.tag = "Shift" ->
             IF x.is_left THEN shift_left(x.left, x.right, self.ctype, location)
             ELSE shift_right(x.left, x.right, self.ctype, location)
        [] x.tag = "Compare" -> fold_compare_op(x.left, x.right, x.token)
        [] x.tag = "Ternary" ->
             fold_ternary(Both(Both(const_fold(x.condition), const_fold(x.then)),
                               const_fold(x.otherwise)))
        [] x.tag = "FuncCall" ->
             fold_call(Both(const_fold(x.func), fold_params(x.params, 1, <<>>)))
        [] x.tag = "Cast" -> cast(x.inner, self.ctype)

\* const_fold, on the folded ExprType of self
const_fold_result(self, expr) ==
  IF ~IsOk(expr) THEN expr ELSE Ok(folded_expr(self, expr.val))

\* Expr::const_fold: Ok(Expr) or Err
const_fold(self) == const_fold_result(self, fold_expr_type(self))

\* constexpr, on self once folded
constexpr_folded(expr) ==
  IF ~IsOk(expr) THEN expr
  ELSE IF IsLiteral(expr.val)
  THEN Ok([data |-> <<expr.val.expr.lit, expr.val.ctype>>,
           location |-> expr.val.location])
  ELSE Err(NotConstant(expr.val), expr.val.location)

\* Expr::constexpr: Ok(Locatable (Literal, Type)) or Err
constexpr(self) == constexpr_folded(const_fold(self))


(***************************************************************************)
(* The trees the parser hands over.  A node's location is its position in  *)
(* the tree: the root is 0 and child k of the node at loc is 4 * loc + k.  *)
(* Literal nodes arrive with constexpr set; Id, Deref and Member nodes are *)
(* lvalues.  Types follow the usual rules: an operator node has the type   *)
(* of its (left) operand, a comparison or logical node is an int, a comma  *)
(* node has the type of its right operand, a cast its target type.         *)
(***************************************************************************)
SmallInt == 3

Child(loc, k) == 4 * loc + k

Node(expr, ctype, loc) ==
  Expr(expr, ctype, expr.tag = "Literal",
       expr.tag \in {"Id", "Deref", "Member"}, loc)

\* the signed values explored: the small ones, a few shift amounts and
\* shifted values, and the ends of the i64 range
IntVals ==
  {IntOf(n) : n \in (-SmallInt)..SmallInt}
    \cup {IntOf(-100), IntOf(-7), IntOf(5), IntOf(31), IntOf(32), IntOf(63),
          IntOf(64), IntOf(100), IPow2(32)}
    \cup {I64_MIN, IAdd(I64_MIN, IOne), ISub(I64_MAX, IOne), I64_MAX}

UnsignedVals ==
  {IntOf(0), IntOf(1), IntOf(2), IntOf(5), IntOf(100), IPow2(63), U64_MAX}

CharVals == {IntOf(0), IntOf(1), IntOf(97), IntOf(255)}

FloatVals == {FZero, FloatOf(1, 1), FloatOf(-2, 0), FloatOf(3, 0)}

IntLeaves(loc) == {Node(Literal(Int_(i)), LongT, loc) : i \in IntVals}
UnsignedLeaves(loc) == {Node(Literal(UnsignedInt(u)), ULongT, loc) : u \in UnsignedVals}
CharLeaves(loc) == {Node(Literal(Char(c)), CharT, loc) : c \in CharVals}
FloatLeaves(loc) == {Node(Literal(Float(f)), DoubleT, loc) : f \in FloatVals}

LitInt(n, loc) == Node(Literal(Int_(IntOf(n))), LongT, loc)
IdX(loc) == Node(Id("x"), IntT, loc)

\* leaves that are not numeric literals
OtherLeaves(loc) ==
  {Node(Literal(Str("s")), PointerT, loc),
   IdX(loc),
   Node(Id("u"), ULongT, loc),
   Node(Id("A"), EnumT, loc),
   Node(Id("C"), EnumT, loc),
   Node(Sizeof(IntT), ULongT, loc),
   Node(Sizeof(VoidT), ULongT, loc)}

Leaves(loc) ==
  IntLeaves(loc) \cup UnsignedLeaves(loc) \cup CharLeaves(loc)
    \cup FloatLeaves(loc) \cup OtherLeaves(loc)

\* a leaf of every kind, for pairs of operands of different kinds
MixedLeaves(loc) ==
  {LitInt(0, loc), LitInt(1, loc), LitInt(5, loc),
   Node(Literal(UnsignedInt(IntOf(0))), ULongT, loc),
   Node(Literal(UnsignedInt(IntOf(5))), ULongT, loc),
   Node(Literal(Char(IntOf(0))), CharT, loc),
   Node(Literal(Char(IntOf(97))), CharT, loc),
   Node(Literal(Float(FZero)), DoubleT, loc),
   Node(Literal(Float(FloatOf(1, 1))), DoubleT, loc),
   Node(Literal(Str("s")), PointerT, loc),
   IdX(loc),
   Node(Id("A"), EnumT, loc)}

ArithOps == {"Add", "Sub", "Mul", "Div", "Mod", "Xor", "BitwiseAnd", "BitwiseOr"}
LogicOps == {"LogicalAnd", "LogicalOr"}
CompareTokens ==
  {"Less", "LessEqual", "Greater", "GreaterEqual", "EqualEqual", "NotEqual"}

\* every binary operator node at loc over the operand pair <<l, r>>
BinaryOver(l, r, loc) ==
  {Node(Binary(op, l, r), l.ctype, loc) : op \in ArithOps}
    \cup {Node(Binary(op, l, r), IntT, loc) : op \in LogicOps}
    \cup {Node(Compare(l, r, t), IntT, loc) : t \in CompareTokens}
    \cup {Node(Binary("Comma", l, r), r.ctype, loc)}
    \cup (IF l.lval THEN {Node(Assign(l, r, "Equal"), l.ctype, loc)} ELSE {})

BinaryNodes(pairs, loc) == UNION {BinaryOver(p[1], p[2], loc) : p \in pairs}

\* operand pairs of one literal kind, and pairs across the kinds
LeafPairs(loc) ==
  (IntLeaves(Child(loc, 1)) \X IntLeaves(Child(loc, 2)))
    \cup (UnsignedLeaves(Child(loc, 1)) \X UnsignedLeaves(Child(loc, 2)))
    \cup (CharLeaves(Child(loc, 1)) \X CharLeaves(Child(loc, 2)))
    \cup (FloatLeaves(Child(loc, 1)) \X FloatLeaves(Child(loc, 2)))
    \cup (MixedLeaves(Child(loc, 1)) \X MixedLeaves(Child(loc, 2)))

CastTargets ==
  {BoolT, CharT, IntT, UIntT, LongT, ULongT, DoubleT, PointerT, EnumT}

\* every unary operator node at loc over the operand x
UnaryOver(x, loc) ==
  {Node(Unary(op, x), x.ctype, loc) : op \in {"Negate", "BitwiseNot", "Noop", "StaticRef"}}
    \cup {Node(Unary("LogicalNot", x), IntT, loc),
          Node(Unary("Deref", x), IntT, loc)}
    \cup {Node(Unary("Cast", x), ty, loc) : ty \in CastTargets}
    \cup (IF x.lval
          THEN {Node(Member(x, "m"), IntT, loc),
                Node(PostIncrement(x, TRUE), x.ctype, loc)}
          ELSE {})

UnaryNodes(xs, loc) == UNION {UnaryOver(x, loc) : x \in xs}

\* the left operands of shifts (integers, after the integer promotions): long
\* and unsigned long literals, literals converted to int and to unsigned
\* int, a promoted char literal, identifiers
ShiftLefts(loc) ==
  IntLeaves(loc) \cup UnsignedLeaves(loc)
    \cup {Node(Unary("Cast", x), IntT, loc) : x \in IntLeaves(Child(loc, 1))}
    \cup {Node(Unary("Cast", x), UIntT, loc) : x \in IntLeaves(Child(loc, 1))}
    \cup {Node(Unary("Cast", Node(Literal(Char(IntOf(97))), CharT, Child(loc, 1))),
               IntT, loc),
          IdX(loc), Node(Id("u"), ULongT, loc), Node(Id("l"), LongT, loc)}

\* the right operands of shifts
ShiftRights(loc) ==
  {LitInt(n, loc) : n \in {-1, 0, 1, 4, 5, 31, 32, 63, 64}}
    \cup {Node(Literal(Int_(IPow2(32))), LongT, loc),
          Node(Literal(UnsignedInt(IntOf(5))), ULongT, loc),
          Node(Literal(Char(IntOf(3))), CharT, loc),
          IdX(loc)}

ShiftNodes(loc) ==
  {Node(Shift(l, r, dir), l.ctype, loc) :
     l \in ShiftLefts(Child(loc, 1)), r \in ShiftRights(Child(loc, 2)),
     dir \in BOOLEAN}

\* subtrees for the deeper trees: literals, trees that fold to a literal,
\* trees that stay non-literal, and trees whose fold fails
Subtrees(loc) ==
  {LitInt(0, loc), LitInt(1, loc), LitInt(5, loc),
   Node(Literal(UnsignedInt(IntOf(0))), ULongT, loc),
   IdX(loc),
   \* 2 - 2
   Node(Binary("Sub", LitInt(2, Child(loc, 1)), LitInt(2, Child(loc, 2))), LongT, loc),
   \* INT64_MAX + 1
   Node(Binary("Add", Node(Literal(Int_(I64_MAX)), LongT, Child(loc, 1)),
               LitInt(1, Child(loc, 2))), LongT, loc),
   \* 1 / 0
   Node(Binary("Div", LitInt(1, Child(loc, 1)), LitInt(0, Child(loc, 2))), LongT, loc),
   \* x << 5 and x >> 1
   Node(Shift(IdX(Child(loc, 1)), LitInt(5, Child(loc, 2)), TRUE), IntT, loc),
   Node(Shift(IdX(Child(loc, 1)), LitInt(1, Child(loc, 2)), FALSE), IntT, loc),
   \* f()
   Node(FuncCall(Node(Id("f"), FunctionT, Child(loc, 1)), <<>>), IntT, loc),
   \* (int *)0
   Node(Unary("Cast", LitInt(0, Child(loc, 1))), PointerT, loc),
   \* (x, 1) and (1, x)
   Node(Binary("Comma", IdX(Child(loc, 1)), LitInt(1, Child(loc, 2))), LongT, loc),
   Node(Binary("Comma", LitInt(1, Child(loc, 1)), IdX(Child(loc, 2))), IntT, loc),
   \* -5
   Node(Unary("Negate", LitInt(5, Child(loc, 1))), LongT, loc)}

SubtreePairs(loc) == Subtrees(Child(loc, 1)) \X Subtrees(Child(loc, 2))

\* the operands of the branches of a ternary and the parameters of a call
FewSubtrees(loc) ==
  {LitInt(1, loc), IdX(loc),
   Node(Binary("Div", LitInt(1, Child(loc, 1)), LitInt(0, Child(loc, 2))), LongT, loc),
   Node(Shift(IdX(Child(loc, 1)), LitInt(5, Child(loc, 2)), TRUE), IntT, loc),
   Node(Literal(Float(FloatOf(1, 1))), DoubleT, loc)}

TernaryNodes(loc) ==
  {Node(Ternary(c, t, o), t.ctype, loc) :
     c \in Subtrees(Child(loc, 1)) \cup {LitInt(-1, Child(loc, 1))},
     t \in FewSubtrees(Child(loc, 2)), o \in FewSubtrees(Child(loc, 3))}

FuncCallNodes(loc) ==
  LET f == Node(Id("f"), FunctionT, Child(loc, 1))
  IN  {Node(FuncCall(f, <<>>), IntT, loc)}
        \cup {Node(FuncCall(f, <<a>>), IntT, loc) : a \in FewSubtrees(Child(loc, 2))}
        \cup {Node(FuncCall(f, <<a, b>>), IntT, loc) :
                a \in FewSubtrees(Child(loc, 2)), b \in FewSubtrees(Child(loc, 3))}

\* trees whose constexpr flag was set by the caller against the rule of
\* Node: a flag the folder is to overwrite
PresetNodes(loc) ==
  {[n EXCEPT !.constexpr = ~n.constexpr] :
     n \in Subtrees(loc) \cup UnaryOver(IdX(Child(loc, 1)), loc)
            \cup BinaryOver(IdX(Child(loc, 1)), LitInt(1, Child(loc, 2)), loc)
            \cup FuncCallNodes(loc)}

\* deeper operands: 1 / (x << 5), (1 / 0, x) and -(1 / 0)
DeepSubtrees(loc) ==
  {Node(Binary("Div", LitInt(1, Child(loc, 1)),
               Node(Shift(IdX(Child(Child(loc, 2), 1)),
                          LitInt(5, Child(Child(loc, 2), 2)), TRUE),
                    IntT, Child(loc, 2))),
        LongT, loc),
   Node(Binary("Comma",
               Node(Binary("Div", LitInt(1, Child(Child(loc, 1), 1)),
                           LitInt(0, Child(Child(loc, 1), 2))),
                    LongT, Child(loc, 1)),
               IdX(Child(loc, 2))),
        IntT, loc),
   Node(Unary("Negate",
              Node(Binary("Div", LitInt(1, Child(Child(loc, 1), 1)),
                          LitInt(0, Child(Child(loc, 1), 2))),
                   LongT, Child(loc, 1))),
        LongT, loc)}

\* trees over a deeper left operand
DeepNodes(loc) ==
  BinaryNodes(DeepSubtrees(Child(loc, 1)) \X Subtrees(Child(loc, 2)), loc)
    \cup UnaryNodes(DeepSubtrees(Child(loc, 1)), loc)

\* (T)(T)l: a literal cast twice to one type
DoubleCasts(loc) ==
  {Node(Unary("Cast", Node(Unary("Cast", x), ty, Child(loc, 1))), ty, loc) :
     x \in Leaves(Child(Child(loc, 1), 1)), ty \in CastTargets}

\* every tree the folder is started on
Inputs ==
  Leaves(0)
    \cup UnaryNodes(Leaves(1), 0)
    \cup UnaryNodes(Subtrees(1), 0)
    \cup BinaryNodes(LeafPairs(0), 0)
    \cup BinaryNodes(SubtreePairs(0), 0)
    \cup ShiftNodes(0)
    \cup TernaryNodes(0)
    \cup FuncCallNodes(0)
    \cup PresetNodes(0)
    \cup DeepNodes(0)
    \cup DoubleCasts(0)

(***************************************************************************)
(* The state machine: the parser hands over a tree; the folder folds it;   *)
(* the consumer of a folded tree may fold it again (the backend does not   *)
(* need to), or the tree is demanded as a constant (Expr::constexpr).      *)
(***************************************************************************)
NoResult == [tag |-> "None"]

\* no run of compile
NoCompile == [pc |-> "idle"]

\* no run of ir::compile
NoIr == [pc |-> "idle"]

Init ==
  /\ input \in Inputs
  /\ overflow_checks \in BOOLEAN
  /\ pc = "parsed"
  /\ folded = NoResult
  /\ refolded = NoResult
  /\ zero = NoResult
  /\ compiler = NoCompile
  /\ ir_compiler = NoIr

\* input.const_fold()
ConstFold ==
  /\ pc = "parsed"
  /\ folded' = const_fold(input)
  /\ pc' = "folded"
  /\ UNCHANGED <<input, overflow_checks, refolded, zero, compiler,
               ir_compiler>>

\* folding the tree const_fold returned once more
Refold ==
  /\ pc = "folded"
  /\ IsOk(folded)
  /\ refolded' = const_fold(folded.val)
  /\ pc' = "refolded"
  /\ UNCHANGED <<input, overflow_checks, folded, zero, compiler,
               ir_compiler>>

\* input.constexpr()
Constexpr ==
  /\ pc = "parsed"
  /\ folded' = constexpr(input)
  /\ pc' = "extracted"
  /\ UNCHANGED <<input, overflow_checks, refolded, zero, compiler,
               ir_compiler>>

\* token.is_zero() and expr.is_zero() on a literal node and its token
IsZero ==
  /\ pc = "parsed"
  /\ IsLiteral(input)
  /\ zero' = [literal |-> Literal_is_zero(input.expr.lit), expr |-> is_zero(input)]
  /\ pc' = "tested"
  /\ UNCHANGED <<input, overflow_checks, folded, refolded, compiler,
               ir_compiler>>

Next == ConstFold \/ Refold \/ Constexpr \/ IsZero

Spec == Init /\ [][Next]_vars


(***************************************************************************)
(* src/src/lib.rs: compile.  What the preprocessor, the parser and the IR  *)
(* stage answer is the input of a run: whether there is a first token,     *)
(* the lex errors met before it, the number of declarations and the        *)
(* errors the parser collects, and whether the IR stage succeeds.          *)
(***************************************************************************)
MaxErrs == 2
MaxDecls == 2

SeqsUpTo(S, n) == UNION {[1..k -> S] : k \in 0..n}

Sources ==
  [first : BOOLEAN,
   lex_errs : SeqsUpTo({"lex"}, MaxErrs),
   hir : 0..MaxDecls,
   parse_errors : SeqsUpTo({"syntax", "semantic"}, MaxErrs),
   ir_ok : BOOLEAN]

\* Error::Source(errs)
Source(errs) == [tag |-> "Err", kind |-> "Source", errs |-> errs]

\* an error list that reports an empty program whatever else it holds
push_empty_program_always(errs, empty) ==
  IF empty THEN Append(errs, "EmptyProgram") ELSE errs

\* if <empty> && errs.is_empty() { errs.push_back(..EmptyProgram) }
push_empty_program(errs, empty) ==
  IF empty /\ errs = <<>> THEN Append(errs, "EmptyProgram") ELSE errs

\* return (Err(Error::Source(errs)), ..)
return_errs(c, errs) ==
  [c EXCEPT !.pc = "done", !.errs = errs, !.result = Source(errs)]

\* compile from the parser's results on, errs being all errors so far
after_parse(c, errs) ==
  IF errs # <<>> THEN return_errs(c, errs)
  ELSE [c EXCEPT !.pc = "ir", !.errs = errs]

CompileInit ==
  /\ input = LitInt(0, 0)
  /\ overflow_checks = FALSE
  /\ pc = "idle"
  /\ folded = NoResult
  /\ refolded = NoResult
  /\ zero = NoResult
  /\ ir_compiler = NoIr
  /\ \E source \in Sources :
       compiler = [pc |-> "start", source |-> source, errs |-> <<>>,
                   ir_called |-> FALSE, result |-> NoResult]

\* cpp.first_token() and the match on first
FirstToken ==
  /\ compiler.pc = "start"
  /\ compiler' =
       IF compiler.source.first
       THEN [compiler EXCEPT !.pc = "lexed", !.errs = compiler.source.lex_errs]
       ELSE return_errs(compiler,
                        push_empty_program(compiler.source.lex_errs, TRUE))
  /\ UNCHANGED <<input, overflow_checks, pc, folded, refolded, zero,
               ir_compiler>>

\* parser.collect_results() and the checks on hir and errs
CollectResults ==
  /\ compiler.pc = "lexed"
  /\ compiler' =
       after_parse(compiler,
                   push_empty_program(compiler.errs \o compiler.source.parse_errors,
                                      compiler.source.hir = 0))
  /\ UNCHANGED <<input, overflow_checks, pc, folded, refolded, zero,
               ir_compiler>>

\* ir::compile(hir, debug_ir) and the result of compile
IrCompile ==
  /\ compiler.pc = "ir"
  /\ compiler' =
       [compiler EXCEPT !.pc = "done", !.ir_called = TRUE,
                        !.result = IF compiler.source.ir_ok THEN Ok("product")
                                   ELSE Source(<<"ir">>)]
  /\ UNCHANGED <<input, overflow_checks, pc, folded, refolded, zero,
               ir_compiler>>

CompileNext == FirstToken \/ CollectResults \/ IrCompile

CompileSpec == CompileInit /\ [][CompileNext]_vars


(***************************************************************************)
(* src/src/ir/mod.rs: the functions of a program.  ir::compile walks the   *)
(* declarations of the program: a function declaration is declared, a      *)
(* function definition is declared and its body compiled, and the          *)
(* declarations in a body are declared on the stack.  The module is the    *)
(* sequence of the functions declared in it; the declarations and the      *)
(* statements of the program are the inputs of a run.                      *)
(***************************************************************************)
MaxFuncDecls == 3

Names == {"f", "g"}

\* the storage classes the parser lets through for a function or an object
StorageClasses == {"Auto", "Extern", "Static"}

\* the parameters of a function definition
ParamLists == {{}} \cup {{n} : n \in Names}

\* the declarations in a function body: of a function, or of an object
\* whose size fits or does not fit on the stack
StackDecls ==
  [id : Names, function : {TRUE}, sc : StorageClasses, fits : {TRUE}]
    \cup [id : Names, function : {FALSE}, sc : {"Auto"}, fits : BOOLEAN]

\* Ok(()) and Ok(compiler.module.finish())
Ok_unit == [tag |-> "Ok"]
Finished(module) == [tag |-> "Ok", product |-> module]

\* Id::Function(func_id), Id::Local(slot)
Id_Function(func_id) == [tag |-> "Function", func_id |-> func_id]
Id_Local == [tag |-> "Local"]

\* Module::declare_function: the module with one more declaration
declare_function(module, name, linkage) ==
  Append(module, [name |-> name, linkage |-> linkage])

\* the FuncId of a declared name: one id for each name, in the order of the
\* first declarations
FuncIdOf(module, name) ==
  LET first == CHOOSE i \in 1..Len(module) :
                 /\ module[i].name = name
                 /\ \A j \in 1..(i - 1) : module[j].name # name
  IN  Cardinality({module[j].name : j \in 1..(first - 1)})

\* a linkage that looks at the storage class only
linkage_by_storage_class(sc, is_definition) ==
  CASE sc \in {"Auto", "Extern"} -> "Import"
    [] sc = "Static" -> "Local"
    [] OTHER -> "unreachable"

\* declare_func: let linkage = match sc
linkage(sc, is_definition) ==
  CASE sc \in {"Auto", "Extern"} /\ is_definition -> "Export"
    [] sc \in {"Auto", "Extern"} -> "Import"
    [] sc = "Static" -> "Local"
    [] OTHER -> "unreachable"

\* declare_func, once the module declared the function
declared(c, id, module) ==
  [c EXCEPT !.module = module,
            !.scope[id] = Id_Function(FuncIdOf(module, id)),
            !.result = Ok(FuncIdOf(module, id))]

\* declare_func, cases 1 and 3
declare_func_with(c, id, lnk) ==
  IF lnk = "unreachable" THEN [c EXCEPT !.result = Panic("unreachable")]
  ELSE declared(c, id, declare_function(c.module, id, lnk))

\* Compiler::declare_func
declare_func(c, id, sc, is_definition) ==
  IF ~is_definition /\ c.scope[id].tag = "Function"
  THEN [c EXCEPT !.result = Ok(c.scope[id].func_id)]
  ELSE declare_func_with(c, id, linkage(sc, is_definition))

\* the compiler on entry of declare_func with these arguments
called(c, id, sc, is_definition) ==
  [c EXCEPT !.calls = @ + 1, !.seen = @ + 1,
            !.call = [id |-> id, sc |-> sc, is_definition |-> is_definition]]

\* store_stack_params: every parameter is bound to a stack slot
store_stack_params(c, params) ==
  [c EXCEPT !.scope = [n \in Names |-> IF n \in params THEN Id_Local
                                        ELSE c.scope[n]]]

\* compile_func, from the result of its declare_func up to the body
compile_func_declared(c, params) ==
  IF IsPanic(c.result) THEN [c EXCEPT !.pc = "aborted"]
  ELSE [store_stack_params(c, params) EXCEPT !.pc = "body"]

\* Compiler::declare_stack
declare_stack(c, decl) ==
  IF decl.function
  THEN declare_func(called(c, decl.id, decl.sc, FALSE), decl.id, decl.sc, FALSE)
  ELSE IF decl.fits
  THEN [c EXCEPT !.seen = @ + 1, !.scope[decl.id] = Id_Local, !.result = Ok_unit]
  ELSE [c EXCEPT !.seen = @ + 1, !.pc = "done",
                 !.result = Err(Semantic("cannot store items on the stack that are more than 4 GB"), 0)]

IrInit ==
  /\ input = LitInt(0, 0)
  /\ overflow_checks = FALSE
  /\ pc = "idle"
  /\ folded = NoResult
  /\ refolded = NoResult
  /\ zero = NoResult
  /\ compiler = NoCompile
  /\ ir_compiler = [pc |-> "toplevel", module |-> <<>>,
                    scope |-> [n \in Names |-> None],
                    seen |-> 0, calls |-> 0, call |-> NoResult,
                    result |-> NoResult]

\* compile: a declaration of a function without a body
DeclareFunc ==
  /\ ir_compiler.pc = "toplevel"
  /\ ir_compiler.seen < MaxFuncDecls
  /\ \E id \in Names, sc \in StorageClasses :
       ir_compiler' = declare_func(called(ir_compiler, id, sc, FALSE), id, sc, FALSE)
  /\ UNCHANGED <<input, overflow_checks, pc, folded, refolded, zero, compiler>>

\* compile: a function definition; compile_func up to the body
CompileFunc ==
  /\ ir_compiler.pc = "toplevel"
  /\ ir_compiler.seen < MaxFuncDecls
  /\ \E id \in Names, sc \in StorageClasses, params \in ParamLists :
       ir_compiler' =
         compile_func_declared(
           declare_func(called(ir_compiler, id, sc, TRUE), id, sc, TRUE), params)
  /\ UNCHANGED <<input, overflow_checks, pc, folded, refolded, zero, compiler>>

\* a declaration among the statements of the body
DeclareStack ==
  /\ ir_compiler.pc = "body"
  /\ ir_compiler.seen < MaxFuncDecls
  /\ \E decl \in StackDecls : ir_compiler' = declare_stack(ir_compiler, decl)
  /\ UNCHANGED <<input, overflow_checks, pc, folded, refolded, zero, compiler>>

\* compile_func from the end of the body on: the function is defined, or
\* it lacks a return statement and compile stops with that error
FuncEnd ==
  /\ ir_compiler.pc = "body"
  /\ \E returns \in BOOLEAN :
       ir_compiler' =
         IF returns THEN [ir_compiler EXCEPT !.pc = "toplevel", !.result = Ok_unit]
         ELSE [ir_compiler EXCEPT
                 !.pc = "done",
                 !.result = Err(Semantic("expected a return statement before end of function"), 0)]
  /\ UNCHANGED <<input, overflow_checks, pc, folded, refolded, zero, compiler>>

\* compile: the program is exhausted, compiler.module.finish()
Finish ==
  /\ ir_compiler.pc = "toplevel"
  /\ ir_compiler' = [ir_compiler EXCEPT !.pc = "done",
                                      !.result = Finished(ir_compiler.module)]
  /\ UNCHANGED <<input, overflow_checks, pc, folded, refolded, zero, compiler>>

IrNext == DeclareFunc \/ CompileFunc \/ DeclareStack \/ FuncEnd \/ Finish

IrSpec == IrInit /\ [][IrNext]_vars


(***************************************************************************)
(* Properties of the folder.  folded is const_fold(input) once pc is       *)
(* "folded"; refolded is const_fold of the tree in folded.                 *)
(***************************************************************************)
Root == input.expr
Folded == pc \in {"folded", "refolded"}

\* the node const_fold returned has this ExprType
FoldedTo(expr) == IsOk(folded) /\ folded.val.expr = expr

\* const_fold failed with an error of this kind, located at the root node
RaisedAtRoot(kind) ==
  IsErr(folded) /\ folded.location = input.location /\ folded.data.kind = kind

\* the root is a binary operator over two Int literals
SignedOps == {"Add", "Sub", "Mul", "Div", "Mod"}
IntPair ==
  Root.tag \in SignedOps /\ IsLit(Root.left, "Int") /\ IsLit(Root.right, "Int")
    /\ (Root.tag \in {"Div", "Mod"} => Root.right.expr.lit.v # IZero)

\* the mathematical result of a signed operation (C's truncating / and %)
Exact(op, a, b) ==
  CASE op = "Add" -> IAdd(a, b)
    [] op = "Sub" -> ISub(a, b)
    [] op = "Mul" -> IMul(a, b)
    [] op = "Div" -> IDivT(a, b)
    [] op = "Mod" -> IRemT(a, b)

\* the checked operation overflows: the result (for %, the quotient) is
\* outside the signed 64-bit range
CheckedOverflows(op, a, b) ==
  IF op = "Mod" THEN ~InI64(IDivT(a, b)) ELSE ~InI64(Exact(op, a, b))

\* e is a literal Int, UnsignedInt or Char zero
ZeroInteger(e) ==
  IsLiteral(e) /\ e.expr.lit.tag \in {"Int", "UnsignedInt", "Char"}
    /\ e.expr.lit.v = IZero

\* e is a literal zero of any numeric kind
ZeroNumber(e) ==
  ZeroInteger(e) \/ (IsLit(e, "Float") /\ e.expr.lit.v = FZero)

\* floor(v / 2^k) for 0 <= k < 64: v >> k, sign-propagating
ShiftedRight(v, k) ==
  IF v.neg
  THEN INeg(IAdd(MkInt(FALSE, NatDivMod(NatSub(v.mag, <<1>>), NatPow2(k))[1]), IOne))
  ELSE MkInt(FALSE, NatDivMod(v.mag, NatPow2(k))[1])

\* C1: a tree that folded to Ok(f) folds again to Ok(f).
C1_Idempotent == pc = "refolded" => refolded = folded

\* C2: a left shift that is not reduced to a literal is re-emitted as a
\* left shift.
C2_LeftShiftStaysLeft ==
  (Folded /\ Root.tag = "Shift" /\ Root.is_left
     /\ IsOk(folded) /\ folded.val.expr.tag = "Shift")
    => folded.val.expr.is_left

\* C3: a signed +, -, *, /, % on two Int literals (divisor not 0) is a
\* ConstOverflow error exactly when the checked operation overflows, and
\* otherwise the literal of the exact result.
C3_SignedArithmetic ==
  (Folded /\ IntPair) =>
    LET a == Root.left.expr.lit.v
        b == Root.right.expr.lit.v
    IN  IF CheckedOverflows(Root.tag, a, b)
        THEN RaisedAtRoot("ConstOverflow")
        ELSE FoldedTo(Literal(Int_(Exact(Root.tag, a, b))))

C3_Witness ==
  /\ Folded /\ IntPair /\ Root.tag = "Div"
  /\ Root.left.expr.lit.v = I64_MIN /\ Root.right.expr.lit.v = IntOf(-1)
  /\ RaisedAtRoot("ConstOverflow")

\* C4: the is_positive of a ConstOverflow tells the direction of the
\* overflow: TRUE iff the exact result is above INT64_MAX.
C4_OverflowDirection ==
  (Folded /\ IntPair /\ Root.tag # "Mod" /\ RaisedAtRoot("ConstOverflow")) =>
    (folded.data.is_positive
       <=> ILt(I64_MAX, Exact(Root.tag, Root.left.expr.lit.v, Root.right.expr.lit.v)))

\* C5: Div and Mod whose right operand folds to a zero Int, UnsignedInt or
\* Char literal fail with DivideByZero located at the Div or Mod node.
C5_DivideByZero ==
  (Folded /\ Root.tag \in {"Div", "Mod"}) =>
    LET r == const_fold(Root.right)
    IN  (IsOk(r) /\ ZeroInteger(r.val)) => folded = Err(DivideByZero, input.location)

C5_Witness ==
  /\ Folded /\ Root.tag = "Div" /\ Root.right.expr.tag = "Sub"
  /\ folded = Err(DivideByZero, input.location)

C7_NullDeref ==
  (Folded /\ Root.tag = "Deref") =>
    LET inner == const_fold(Root.inner)
    IN  (IsOk(inner) /\ ZeroInteger(inner.val))
          => /\ IsErr(folded)
             /\ folded.data = Semantic("cannot dereference NULL pointer")

\* C8: a right shift by a literal n: literal 0 of the result's signedness
\* when n >= S = 8 * sizeof(result type); the shifted value when n < S and
\* the left operand folds to an Int or UnsignedInt literal.
C8_RightShift ==
  (Folded /\ Root.tag = "Shift" /\ ~Root.is_left) =>
    LET l == const_fold(Root.left)
        r == const_fold(Root.right)
        size == sizeof(input.ctype)
    IN  (/\ IsOk(l) /\ IsOk(r) /\ IsOk(size) /\ IsLiteral(r.val)
         /\ r.val.expr.lit.tag \in {"Int", "UnsignedInt", "Char"}
         /\ ~r.val.expr.lit.v.neg)
          => LET n == r.val.expr.lit.v
                 S == IMul(IntOf(8), size.val)
                 k == IF n = IZero THEN 0 ELSE n.mag[1]
             IN  IF ILe(S, n)
                 THEN FoldedTo(Literal(IF is_signed(input.ctype) THEN Int_(IZero)
                                       ELSE UnsignedInt(IZero)))
                 ELSE /\ IsLit(l.val, "Int")
                           => FoldedTo(Literal(Int_(ShiftedRight(l.val.expr.lit.v, k))))
                      /\ IsLit(l.val, "UnsignedInt")
                           => FoldedTo(Literal(UnsignedInt(
                                ShiftedRight(l.val.expr.lit.v, k))))

\* C9: a left shift whose left operand has a signed type of s bytes and
\* whose right operand folds to a literal n >= 8 * s fails with "cannot
\* shift left by 8 * s or more bits", literal left operand or not; a shift
\* by a negative Int literal fails.
C9_ShiftErrors ==
  (Folded /\ Root.tag = "Shift") =>
    LET l == const_fold(Root.left)
        r == const_fold(Root.right)
        size == sizeof(Root.left.ctype)
    IN  /\ (/\ Root.is_left /\ IsOk(l) /\ IsOk(r) /\ IsLiteral(r.val)
            /\ r.val.expr.lit.tag \in {"Int", "UnsignedInt", "Char"}
            /\ ~r.val.expr.lit.v.neg
            /\ is_signed(Root.left.ctype) /\ IsOk(size)
            /\ ILe(IMul(IntOf(8), size.val), r.val.expr.lit.v))
             => /\ IsErr(folded) /\ folded.location = input.location
                /\ folded.data.kind = "Semantic"
                /\ folded.data.msg
                     = "cannot shift left by {} or more bits for type '{}' (got {})"
                /\ folded.data.max_shift = IMul(IntOf(8), size.val)
                /\ folded.data.shift = r.val.expr.lit.v
        /\ (IsOk(r) /\ IsLit(r.val, "Int") /\ r.val.expr.lit.v.neg) => IsErr(folded)

C9_Witness ==
  /\ Folded /\ Root.tag = "Shift" /\ Root.is_left
  /\ Root.left.expr.tag = "Id" /\ Root.left.ctype = IntT
  /\ Root.right = LitInt(32, Child(input.location, 2))
  /\ IsErr(folded) /\ folded.data.kind = "Semantic"
  /\ folded.data.max_shift = IntOf(32)

\* C10: the node const_fold returns has the type and the location of the
\* node it was given, whatever it was folded to.
C10_TypeAndLocationKept ==
  (Folded /\ IsOk(folded)) =>
    folded.val.ctype = input.ctype /\ folded.val.location = input.location

C10_Witness ==
  /\ Folded /\ Root.tag = "Comma" /\ IsLiteral(Root.left)
  /\ Root.left.ctype # input.ctype
  /\ IsOk(folded) /\ folded.val.expr.tag = "Id"
  /\ folded.val.ctype = input.ctype

\* C11: the node const_fold returns has constexpr set exactly when it is a
\* Literal, whatever the flag of the node it was given; a node rebuilt as
\* FuncCall, Assign, PostIncrement, Member, Noop or StaticRef has it unset.
C11_ConstexprIffLiteral ==
  /\ (Folded /\ IsOk(folded)) =>
        /\ folded.val.constexpr <=> folded.val.expr.tag = "Literal"
        /\ folded.val.expr.tag \in {"FuncCall", "Assign", "PostIncrement",
                                     "Member", "Noop", "StaticRef"}
             => ~folded.val.constexpr
  /\ (pc = "refolded" /\ IsOk(refolded)) =>
        (refolded.val.constexpr <=> refolded.val.expr.tag = "Literal")

C11_Witness ==
  /\ Folded /\ input.constexpr /\ Root.tag = "FuncCall"
  /\ IsOk(folded) /\ folded.val.expr.tag = "FuncCall" /\ ~folded.val.constexpr

\* the operand nodes of the node e, and every node below e
Children(e) ==
  CASE e.expr.tag \in {"Literal", "Id", "Sizeof"} -> {}
    [] e.expr.tag = "Ternary" ->
         {e.expr.condition, e.expr.then, e.expr.otherwise}
    [] e.expr.tag = "FuncCall" ->
         {e.expr.func} \cup {e.expr.params[i] : i \in 1..Len(e.expr.params)}
    [] "inner" \in DOMAIN e.expr -> {e.expr.inner}
    [] OTHER -> {e.expr.left, e.expr.right}

RECURSIVE SubExprs(_)
SubExprs(e) == Children(e) \cup UNION {SubExprs(c) : c \in Children(e)}

\* C12: when the fold of any node below the root returns an error, the
\* fold of the root returns an error (and no tree), needed operand or not.
C12_NoErrorSwallowed ==
  (Folded /\ \E sub \in SubExprs(input) : IsErr(const_fold(sub)))
    => IsErr(folded)

\* the rules table of the cast normalizer, first matching row: Some(literal)
\* or None
CastTable(l, T) ==
  LET numeric == l.tag \in {"Int", "UnsignedInt", "Float", "Char"}
      float   == l.tag = "Float"
  IN  CASE numeric /\ T.kind = "Bool" ->
             Some(Int_(BoolAsI64(IF float THEN l.v # FZero ELSE l.v # IZero)))
        [] numeric /\ T.kind \in {"Float", "Double"} ->
             Some(Float(IF float THEN l.v ELSE f64_from(l.v)))
        [] numeric /\ is_integral(T) /\ is_signed(T) ->
             Some(Int_(IF float THEN f64_as_i64(l.v) ELSE WrapI64(l.v)))
        [] numeric /\ is_integral(T) ->
             Some(UnsignedInt(IF float THEN f64_as_u64(l.v) ELSE WrapU64(l.v)))
        [] l.tag = "Int" /\ ~l.v.neg /\ is_pointer(T) -> Some(UnsignedInt(l.v))
        [] l.tag \in {"UnsignedInt", "Char"} /\ is_pointer(T) ->
             Some(UnsignedInt(l.v))
        [] OTHER -> None

\* the root casts a literal
CastOfLiteral == Root.tag = "Cast" /\ IsLiteral(Root.inner)

\* C13: a cast of a literal folds to the literal the rules table gives for
\* the source literal (Int, UnsignedInt, Float and Char alike) and the
\* target type, and is rebuilt as a Cast only when no row matches.
C13_CastTable ==
  (Folded /\ CastOfLiteral) =>
    LET m == CastTable(Root.inner.expr.lit, input.ctype)
    IN  IF m.tag = "Some" THEN FoldedTo(Literal(m.lit))
        ELSE FoldedTo(Unary("Cast", Root.inner))

\* the root is (T)(T)l for a literal l
DoubleCast ==
  /\ Root.tag = "Cast" /\ Root.inner.expr.tag = "Cast"
  /\ Root.inner.ctype = input.ctype /\ IsLiteral(Root.inner.expr.inner)

\* C14: when (T)l folds to a literal m, (T)m folds to m again: (T)(T)l
\* folds to the literal (T)l folds to.
C14_CastIdempotent ==
  (Folded /\ DoubleCast) =>
    LET once == const_fold(Root.inner)
    IN  (IsOk(once) /\ IsLiteral(once.val)) => FoldedTo(once.val.expr)

C14_Witness ==
  /\ Folded /\ DoubleCast /\ input.ctype = ULongT
  /\ Root.inner.expr.inner.expr.lit = Int_(IntOf(-1))
  /\ FoldedTo(Literal(UnsignedInt(U64_MAX)))

\* the root is a binary operator over two UnsignedInt literals
UnsignedPair ==
  /\ Root.tag \in SignedOps
  /\ IsLit(Root.left, "UnsignedInt") /\ IsLit(Root.right, "UnsignedInt")
  /\ (Root.tag \in {"Div", "Mod"} => Root.right.expr.lit.v # IZero)

\* x mod 2^64, for -2^64 < x
Mod64(x) == IF x.neg THEN IAdd(x, IPow2(64)) ELSE IRemT(x, IPow2(64))

\* C15: +, -, * on two UnsignedInt literals fold to the UnsignedInt of the
\* exact result mod 2^64, / and % by a non-zero divisor to the quotient
\* and the remainder; no error is raised.
C15_UnsignedArithmetic ==
  (Folded /\ UnsignedPair) =>
    FoldedTo(Literal(UnsignedInt(
      Mod64(Exact(Root.tag, Root.left.expr.lit.v, Root.right.expr.lit.v)))))

C15_Witness ==
  /\ Folded /\ UnsignedPair /\ Root.tag = "Sub"
  /\ Root.left.expr.lit.v = IZero /\ Root.right.expr.lit.v = IOne
  /\ FoldedTo(Literal(UnsignedInt(U64_MAX)))

\* the fold of the root's operands under % instead of /
FoldedMod == const_fold([input EXCEPT !.expr.tag = "Mod"])

\* C16: for a / b and a % b on two Int or two UnsignedInt literals, b not
\* 0, when neither fold is an error: the folds are literals q and r of
\* the operands' variant with q * b + r = a, |r| < |b|, and r zero or of
\* the sign of a.
C16_DivModIdentity ==
  (Folded /\ Root.tag = "Div" /\ (IntPair \/ UnsignedPair)
     /\ IsOk(folded) /\ IsOk(FoldedMod)) =>
    LET a == Root.left.expr.lit.v
        b == Root.right.expr.lit.v
        q == folded.val.expr.lit.v
        r == FoldedMod.val.expr.lit.v
    IN  /\ IsLit(folded.val, Root.left.expr.lit.tag)
        /\ IsLit(FoldedMod.val, Root.left.expr.lit.tag)
        /\ IAdd(IMul(q, b), r) = a
        /\ NatLt(r.mag, b.mag)
        /\ r = IZero \/ r.neg = a.neg

C16_Witness ==
  /\ Folded /\ Root.tag = "Div" /\ IntPair
  /\ Root.left.expr.lit.v = IntOf(-7) /\ Root.right.expr.lit.v = IntOf(2)
  /\ FoldedTo(Literal(Int_(IntOf(-3))))
  /\ FoldedMod = Ok([input EXCEPT !.expr = Literal(Int_(IntOf(-1))),
                                   !.constexpr = TRUE])

\* a and b are literals of one numeric variant
SameNumericVariant(a, b) ==
  /\ IsLiteral(a) /\ IsLiteral(b)
  /\ a.expr.lit.tag = b.expr.lit.tag
  /\ a.expr.lit.tag \in {"Int", "UnsignedInt", "Char", "Float"}

\* the primitive comparison of two literals of one numeric variant
PrimitiveCompare(token, a, b) ==
  LET lt == IF a.tag = "Float" THEN f64_cmp(a.v, b.v) < 0 ELSE ILt(a.v, b.v)
      eq == a.v = b.v
  IN  CASE token = "Less" -> lt
        [] token = "LessEqual" -> lt \/ eq
        [] token = "Greater" -> ~lt /\ ~eq
        [] token = "GreaterEqual" -> ~lt
        [] token = "EqualEqual" -> eq
        [] token = "NotEqual" -> ~eq

\* C17: a comparison whose operands fold to literals of one numeric
\* variant folds to Literal(Int 1) when the primitive comparison holds and
\* to Literal(Int 0) when it does not; any other comparison whose operands
\* fold is rebuilt as Compare over the folded operands, operator kept.
C17_Comparisons ==
  (Folded /\ Root.tag = "Compare") =>
    LET l == const_fold(Root.left)
        r == const_fold(Root.right)
    IN  (IsOk(l) /\ IsOk(r)) =>
          IF SameNumericVariant(l.val, r.val)
          THEN FoldedTo(Literal(Int_(
                 IF PrimitiveCompare(Root.token, l.val.expr.lit, r.val.expr.lit)
                 THEN IOne ELSE IZero)))
          ELSE FoldedTo(Compare(l.val, r.val, Root.token))

C17_Witness ==
  /\ Folded /\ Root.tag = "Compare" /\ Root.token = "LessEqual"
  /\ IsLit(Root.left, "Float") /\ Root.left.expr.lit = Root.right.expr.lit
  /\ FoldedTo(Literal(Int_(IOne)))

\* C18: && and || over operands that fold to l and r: && is Int 1 for
\* (Int 1, Int 1) and Int 0 for two literals one of which is Int 0; || is
\* Int 0 for (Int 0, Int 0) and Int 1 for two literals one of which is
\* Int 1; every other node is rebuilt over l and r, also 0 && x and 1 || x.
C18_Logical ==
  (Folded /\ Root.tag \in LogicOps) =>
    LET l == const_fold(Root.left)
        r == const_fold(Root.right)
        same  == IF Root.tag = "LogicalAnd" THEN IOne ELSE IZero
        other == IF Root.tag = "LogicalAnd" THEN IZero ELSE IOne
    IN  (IsOk(l) /\ IsOk(r)) =>
          IF l.val.expr = Literal(Int_(same)) /\ r.val.expr = Literal(Int_(same))
          THEN FoldedTo(Literal(Int_(same)))
          ELSE IF /\ IsLiteral(l.val) /\ IsLiteral(r.val)
                  /\ Int_(other) \in {l.val.expr.lit, r.val.expr.lit}
          THEN FoldedTo(Literal(Int_(other)))
          ELSE FoldedTo(Binary(Root.tag, l.val, r.val))

C18_Witness ==
  /\ Folded /\ Root.tag = "LogicalAnd"
  /\ Root.left.expr = Literal(Int_(IZero)) /\ Root.right.expr.tag = "Id"
  /\ FoldedTo(Binary("LogicalAnd", Root.left, Root.right))

\* C19: on a literal, Literal::is_zero and Expr::is_zero both answer true
\* exactly for Int 0, UnsignedInt 0, Char 0 and Float 0.0.
C19_IsZero ==
  pc = "tested" =>
    /\ zero.expr <=> ZeroNumber(input)
    /\ zero.literal <=> ZeroNumber(input)

\* the errors lexing and parsing produced, and whether the program is empty
Produced ==
  compiler.source.lex_errs
    \o (IF compiler.source.first THEN compiler.source.parse_errors ELSE <<>>)
EmptyInput == ~compiler.source.first \/ compiler.source.hir = 0

\* C20: the IR stage is invoked only after lexing and parsing produced no
\* error and a program that is not empty; otherwise compile returns
\* Err(Source(errs)) with errs the errors produced, or the one error
\* EmptyProgram when there are none.
C20_CompileOrder ==
  /\ compiler.pc \in {"ir", "done"} /\ (compiler.pc = "ir" \/ compiler.ir_called)
       => Produced = <<>> /\ ~EmptyInput
  /\ (compiler.pc = "done" /\ (Produced # <<>> \/ EmptyInput)) =>
       /\ ~compiler.ir_called
       /\ compiler.result =
            Source(IF Produced = <<>> THEN <<"EmptyProgram">> ELSE Produced)

C20_Witness ==
  /\ compiler.pc = "done" /\ compiler.source.first /\ compiler.source.hir = 0
  /\ compiler.source.lex_errs = <<>>
  /\ compiler.source.parse_errors = <<"syntax">>
  /\ compiler.result = Source(<<"syntax">>) /\ ~compiler.ir_called

\* the root is a left shift whose left operand folds to an Int literal of a
\* signed type and whose right operand folds to a literal amount below the
\* width in bits of that type
SignedLeftShift ==
  /\ Root.tag = "Shift" /\ Root.is_left
  /\ is_signed(Root.left.ctype) /\ IsOk(sizeof(Root.left.ctype))
  /\ LET l == const_fold(Root.left)
         r == const_fold(Root.right)
     IN  /\ IsOk(l) /\ IsLit(l.val, "Int")
         /\ IsOk(r) /\ IsLiteral(r.val)
         /\ r.val.expr.lit.tag \in {"Int", "UnsignedInt"}
         /\ ~r.val.expr.lit.v.neg
         /\ ILt(r.val.expr.lit.v,
                IMul(IntOf(CHAR_BIT), sizeof(Root.left.ctype).val))

\* i * 2^n for the operands of a SignedLeftShift
ExactShiftLeft ==
  LET n == const_fold(Root.right).val.expr.lit.v
  IN  IMul(const_fold(Root.left).val.expr.lit.v,
           IPow2(IF n = IZero THEN 0 ELSE n.mag[1]))

\* C21: a left shift of Int(i) of a signed type by a literal n below the
\* width of the type folds to Int(i * 2^n) when that is an i64 and fails
\* with "overflow in shift left during constant folding" when it is not;
\* no value with its high bits shifted out is returned.
C21_SignedLeftShift ==
  (Folded /\ SignedLeftShift) =>
    IF InI64(ExactShiftLeft)
    THEN FoldedTo(Literal(Int_(ExactShiftLeft)))
    ELSE /\ IsErr(folded)
         /\ folded.data
              = Semantic("overflow in shift left during constant folding")

\* C22: LogicalNot of an Int, UnsignedInt, Char or Float literal folds to
\* Int 1 when the value is 0 and to Int 0 otherwise; of a string literal to
\* Int 0; only an operand that is not a literal is rebuilt as LogicalNot.
C22_LogicalNot ==
  (Folded /\ Root.tag = "LogicalNot") =>
    LET inner == const_fold(Root.inner)
    IN  IsOk(inner) =>
          IF IsLiteral(inner.val)
          THEN FoldedTo(Literal(Int_(BoolAsI64(ZeroNumber(inner.val)))))
          ELSE FoldedTo(Unary("LogicalNot", inner.val))

\* a - b, a + b, a * b in 8 bits
WrapChar(op, a, b) == WrapU8(Exact(op, a, b))

\* C23: Add, Sub or Mul over two Char literals folds to the Char literal of
\* the result in 8 bits; the operator node is not rebuilt.
C23_CharArithmetic ==
  (Folded /\ Root.tag \in {"Add", "Sub", "Mul"}
     /\ IsLit(Root.left, "Char") /\ IsLit(Root.right, "Char")) =>
    FoldedTo(Literal(Char(WrapChar(Root.tag, Root.left.expr.lit.v,
                                   Root.right.expr.lit.v))))

\* the fold of the right operand of the root
RightFolded == const_fold(Root.right)

C25_ErrorAtNode ==
  (Folded /\ IsErr(folded) /\ \A c \in Children(input) : IsOk(const_fold(c)))
    => folded.location = input.location

\* C27: the fold of a Div or Mod never aborts on a division by zero; no
\* primitive is reached with a zero right literal.
C27_NoZeroDivisor ==
  (Folded /\ Root.tag \in {"Div", "Mod"}) =>
    folded # Panic("attempt to divide by zero")

\* a step that is a call of declare_func, on an identifier bound to this
DeclareFuncCall == ir_compiler.pc # "idle" /\ ir_compiler'.calls # ir_compiler.calls
BoundBefore == ir_compiler.scope[ir_compiler'.call.id]

\* C26: a declare_func call that is not a definition, on an identifier
\* bound to a function, returns that function's FuncId and declares
\* nothing; a declaration of an identifier not so bound is declared Import,
\* or Local when static; a definition is declared Export or Local.
C26_DeclareFunc ==
  [][DeclareFuncCall =>
       /\ (~ir_compiler'.call.is_definition /\ BoundBefore.tag = "Function") =>
            /\ ir_compiler'.result = Ok(BoundBefore.func_id)
            /\ ir_compiler'.module = ir_compiler.module
            /\ ir_compiler'.scope = ir_compiler.scope
       /\ (~ir_compiler'.call.is_definition /\ BoundBefore.tag # "Function") =>
            ir_compiler'.module =
              Append(ir_compiler.module,
                     [name |-> ir_compiler'.call.id,
                      linkage |-> IF ir_compiler'.call.sc = "Static"
                                  THEN "Local" ELSE "Import"])
       /\ ir_compiler'.call.is_definition =>
            /\ Len(ir_compiler'.module) = Len(ir_compiler.module) + 1
            /\ ir_compiler'.module[Len(ir_compiler'.module)].name
                 = ir_compiler'.call.id
            /\ ir_compiler'.module[Len(ir_compiler'.module)].linkage
                 \in {"Export", "Local"}]_vars

\* f declared, then defined, then declared again: the third call is a no-op
C26_Witness ==
  /\ ir_compiler.pc = "toplevel" /\ ir_compiler.calls = 3
  /\ ir_compiler.call = [id |-> "f", sc |-> "Auto", is_definition |-> FALSE]
  /\ ir_compiler.module = <<[name |-> "f", linkage |-> "Import"],
                            [name |-> "f", linkage |-> "Export"]>>
  /\ ir_compiler.result = Ok(0)

====
